---- MODULE Spec2Model ----
(***************************************************************************)
(* A model of the gethscan swap scanner (src/scanner/scanswap.go).         *)
(*                                                                         *)
(* The specifications of the module, over the same variables:              *)
(*   Spec          the scan controller: start-up (scanSwap), run, the      *)
(*                 range workers, the tail loop (scanLoop), scanBlock, the *)
(*                 checkpoint (updateSyncdBlockNumber /                    *)
(*                 rewriteSyncdBlockNumber) and process restarts;          *)
(*   SpecDispatch  the registration dispatcher: postSwapPost with its      *)
(*                 attempts of rpcPost, the retry ring and the store's     *)
(*                 collections;                                            *)
(*   SpecQueue     postSwapPost call by call, the poller of the retry ring *)
(*                 (repostCachedSwaps) and the worker of the pending queue *)
(*                 (loopSwapPending); SpecQueueFair schedules the worker   *)
(*                 again and again;                                        *)
(*   SpecClassify  the classifier: scanTransaction over a table of rules,  *)
(*                 checkTxToAddress, verifyTransaction and the parsers;    *)
(*   SpecRange     doScanRangeJob and its workers, for every start, end    *)
(*                 and number of jobs;                                     *)
(*   SpecTail      scanLoop call by call: scanBlock and the checkpoint     *)
(*                 update are steps of their own;                          *)
(*   SpecBlock     scanBlock call by call: the fetch, the transactions     *)
(*                 one by one and the timer of the block;                  *)
(*   SpecPass      the worker of the pending queue over a queue that the   *)
(*                 store holds when the scanner starts;                    *)
(*   SpecReload    params.ReloadConfig, call by call, between the calls of *)
(*                 scanTransaction;                                        *)
(*   SpecLogs      scanTransaction over the calls of a router contract,    *)
(*                 with receipts whose logs may have no topic.             *)
(*                                                                         *)
(* uint64 / int64 arithmetic is kept, at a scaled-down width of UintBits   *)
(* bits: every uint64 expression of the source is reduced modulo UintMod.  *)
(***************************************************************************)
EXTENDS Integers, Sequences, FiniteSets, TLC

\* ------------------------------------------------------------------ bounds

\* Width, in bits, of the model's unsigned integers (uint64 in the source).
UintBits == 6
\* The chain never grows past this height.
MaxHeight == 12
\* Process restarts (crash and start again) per behaviour.
MaxRestarts == 1
\* Failed loopGetBlock calls on blocks that exist, per process.
MaxFetchFail == 1
\* Failed mongodb.UpdateSyncedBlockNumber calls, per process.
MaxStoreFail == 1
\* Calls of postSwapPost per behaviour.
MaxCalls == 2
\* Length of a page of mongodb.FindAllSwapPending (10 in the source, lines 991
\* and 1021-1022), scaled down with the number of records.
PageSize == 2
\* Logs of a transaction's receipt.
MaxLogs == 2
\* The end of the ranges handed to doScanRangeJob, and its jobs.
MaxRangeEnd == 6
MaxJobs == 3

UintMod == 2 ^ UintBits

\* ------------------------------------------------------- integer conversions

\* A uint64 result: reduced modulo the width.
U64(x) == x % UintMod

\* int64(u) of a uint64 u: two's complement reinterpretation.
I64(u) == IF u >= UintMod \div 2 THEN u - UintMod ELSE u

\* ------------------------------------------------------- program constants

\* syncdCount2Mongodb's value before the configuration is applied.
DefaultSyncdCount == 100
\* the ten-block buffer subtracted at start-up.
StartBuffer == 10
\* capacity of the scanned-block ring.
CacheCapacity == 100
\* getSyncdBlockNumber's store value when the SyncedBlock document is absent.
NoDoc == -1
\* scanner.rpcRetryCount
rpcRetryCount == 3
\* capacity of the retry ring
RingCapacity == 100

\* ---------------------------------------------------------- configurations

\* --start, --end, --jobs, --initsync, BlockChain.StableHeight,
\* BlockChain.ScanBackHeight, BlockChain.SyncNumber and MongoDB.Enable. A
\* setting that is never read under the others takes one value only: the
\* store's settings with the store disabled, --jobs with no range to scan;
\* two range workers run over the short ranges that end at --end.
Configs ==
    { c \in [ start : {-1, 0, 1},
              endHeight : {0, 5},
              jobCount : {1, 2},
              initsync : BOOLEAN,
              StableHeight : {1},
              ScanBackHeight : {3},
              SyncNumber : {2},
              Enable : BOOLEAN ] :
        /\ c.Enable \/ ~c.initsync
        /\ (c.start # 0 /\ c.endHeight # 0) \/ c.jobCount = 1 }

\* Checkpoint documents the store may hold when the process first starts.
StoredValues == {NoDoc, 3, 10, 12}

\* Chain heights when the process first starts.
HeadValues == {10, 11}

VARIABLES
    \* --- environment
    cfg,                  \* the command line and configuration file
    chainHead,            \* the chain's latest height
    stored,               \* the store's SyncedBlock document (NoDoc: none)
    HaveReloadConfig,     \* params.HaveReloadConfig, the reload latch
    \* --- the process
    pc,                   \* where the scan controller is
    startHeightArgument,  \* int64
    mongodbEnable,
    syncedNumber,         \* uint64
    syncedCount,          \* uint64
    syncdCount2Mongodb,   \* uint64
    synced,
    wend,                 \* run's local
    workers,              \* job |-> [from, to, h]: the range workers
    from, latest, h,      \* scanLoop's locals
    cachedBlocks,         \* [hashes, nextIndex]: the scanned-block ring
    \* --- history
    scannedOK,            \* heights this process fetched and scanned
    checkpointed,         \* heights this process reported as the checkpoint
    nRestarts, nFetchFail, nStoreFail,
    preRestart,           \* [synced, stored] held before the last restart
    advances, flushes,    \* since start-up: syncedNumber advances, store flushes
    \* --- the dispatcher
    dpc,                  \* where postSwapPost is
    swap,                 \* postSwapPost's argument
    attempt,              \* postSwapPost's loop counter i
    needCached, needPending,
    err,                  \* the last rpcPost's result ("nil": no error)
    cachedSwapPosts,      \* the retry ring
    collectionSwap,       \* the store's registered collection
    collectionSwapPending,
    collectionSwapDeleted,
    \* --- history of the dispatcher
    posts,                \* the server's answers to this call's attempts
    did,                  \* what the end of the last call wrote
    accepted,             \* records whose last call the server accepted at once
    nCalls,
    \* --- the pending-queue worker (loopSwapPending)
    wpc,                  \* where the worker is ("off": not started)
    offset,               \* loopSwapPending's offset
    sp,                   \* the page read by mongodb.FindAllSwapPending
    spi,                  \* the index, in sp, of the entry at hand
    repostOK,             \* repostSwap's result for the last entry
    \* --- environment of the worker
    doomed,               \* txids whose receipt lookup fails or has status # 1
    serverUp,             \* the swap server accepts every repost
    \* --- the classifier (scanTransaction)
    tx,                   \* the transaction at hand
    rules,                \* params.GetScanConfig().Tokens
    scanReceipt,          \* scanner.scanReceipt
    cpc,                  \* where scanTransaction is ("off": not called)
    receiptFound,         \* loopGetTxReceipt returned the receipt
    verified,             \* verifyTransaction's result, rule by rule
    emitted,              \* the records handed to postSwapPost, in order
    \* --- doScanRangeJob on its own
    rpc,                  \* where doScanRangeJob is ("off": not called)
    rangeStart,           \* its start
    rangeEnd,             \* its end
    rangeJobs,            \* scanner.jobCount
    rangeScans,           \* height |-> the jobs that called scanBlock for it
    \* --- history of scanLoop's passes
    passScans,            \* the heights scanBlock was called for in this pass
    passUpdates,          \* the heights the checkpoint was updated for
    failedNow,            \* the heights whose fetch failed in this pass
    failedBefore,         \* those of the pass before, in its stability window
    passOffered,          \* the heights whose transactions this pass classified
    rewound,              \* the pass at hand starts at a from rewound by a reload
    \* --- scanBlock, call by call
    bpc,                  \* where scanBlock is ("off": not modelled by call)
    bi,                   \* the transactions of the block gone through
    processBlockTimers,   \* job |-> [armed, c]: the timer and its channel
    \* --- history of scanBlock
    cutOff,               \* the heights whose scan by scanLoop met a fired timer
    \* --- history of the pending-queue worker's passes
    passSnap,             \* the txids in pending when the pass at hand started
    passSeen              \* the txids the pass at hand handed to repostSwap

scanVars ==
    << cfg, chainHead, stored, HaveReloadConfig, pc, startHeightArgument,
       mongodbEnable, syncedNumber, syncedCount, syncdCount2Mongodb, synced,
       wend, workers, from, latest, h, cachedBlocks, scannedOK, checkpointed,
       nRestarts, nFetchFail, nStoreFail, preRestart, advances, flushes >>

dispVars ==
    << dpc, swap, attempt, needCached, needPending, err, cachedSwapPosts,
       collectionSwap, collectionSwapPending, collectionSwapDeleted, posts,
       did, accepted, nCalls >>

queueVars == << wpc, offset, sp, spi, repostOK, doomed, serverUp >>

\* The variables of the components added to the scan controller and the
\* dispatcher.
classVars == << tx, rules, scanReceipt, cpc, receiptFound, verified, emitted >>

splitVars == << rpc, rangeStart, rangeEnd, rangeJobs, rangeScans >>

tailVars ==
    << passScans, passUpdates, failedNow, failedBefore, passOffered, rewound >>

blockVars == << bpc, bi, processBlockTimers, cutOff >>

passVars == << passSnap, passSeen >>

extVars == << queueVars, classVars, splitVars, tailVars, blockVars, passVars >>

vars == << scanVars, dispVars, extVars >>

\* ------------------------------------------------------ scanned-block ring

\* block.Hash().Hex(): the canonical chain has one block per height.
BlockHash(height) == height

\* The ring's slots are written in index order, so hashes holds the written
\* slots only; the unwritten ones hold "", which is no block's hash.
EmptyCache == [hashes |-> << >>, nextIndex |-> 0]

addBlock(cache, blockHash) ==
    [ hashes |-> IF cache.nextIndex < Len(cache.hashes)
                 THEN [cache.hashes EXCEPT ![cache.nextIndex + 1] = blockHash]
                 ELSE Append(cache.hashes, blockHash),
      nextIndex |-> (cache.nextIndex + 1) % CacheCapacity ]

isScanned(cache, blockHash) ==
    \E i \in 1..Len(cache.hashes) : cache.hashes[i] = blockHash

\* ------------------------------------------------------------ chain client

loopGetLatestBlockNumber == chainHead

\* loopGetBlock's results: a block that does not exist is never returned, one
\* that exists may fail all five attempts.
loopGetBlock(height) ==
    IF height > chainHead THEN {FALSE}
    ELSE {TRUE} \cup (IF nFetchFail < MaxFetchFail THEN {FALSE} ELSE {})

\* scanBlock(job, height, cache) with loopGetBlock's result ok.
scanBlock(height, cache, ok) ==
    IF ~ok
    THEN /\ nFetchFail' = IF height > chainHead THEN nFetchFail ELSE nFetchFail + 1
         /\ UNCHANGED << cachedBlocks, scannedOK >>
    ELSE /\ nFetchFail' = nFetchFail
         /\ IF cache /\ isScanned(cachedBlocks, BlockHash(height))
            THEN UNCHANGED << cachedBlocks, scannedOK >>
            ELSE /\ scannedOK' = scannedOK \cup {height}
                 /\ cachedBlocks' = IF cache
                                    THEN addBlock(cachedBlocks, BlockHash(height))
                                    ELSE cachedBlocks

\* -------------------------------------------------------------- checkpoint

\* mongodb.UpdateSyncedBlockNumber's results: TRUE when err == nil.
UpdateSyncedBlockNumber ==
    {TRUE} \cup (IF nStoreFail < MaxStoreFail THEN {FALSE} ELSE {})

\* Mutant: any height above syncedNumber advances it.
IsNextNumber_above(number, sn) == number > sn

\* number == syncedNumber + 1, in uint64.
IsNextNumber(number, sn) == number = U64(sn + 1)

\* Mutant: the flush waits for one height more.
NeedFlush_late(count, threshold) == count > threshold

\* syncedCount >= syncdCount2Mongodb
NeedFlush(count, threshold) == count >= threshold

\* syncedCount after a flush whose store write returned wok.
CountAfterFlush(count, wok) == IF wok THEN 0 ELSE count

\* updateSyncdBlockNumber(number), the store write returning wok.
updateSyncdBlockNumber(number, wok) ==
    LET adv == IsNextNumber(number, syncedNumber)
        sn1 == IF adv THEN number ELSE syncedNumber
        cnt1 == IF adv THEN U64(syncedCount + 1) ELSE syncedCount
        flush == NeedFlush(cnt1, syncdCount2Mongodb)
    IN  /\ syncedNumber' = sn1
        /\ advances' = IF adv THEN advances + 1 ELSE advances
        /\ checkpointed' = IF adv \/ (flush /\ wok)
                           THEN checkpointed \cup {sn1} ELSE checkpointed
        /\ IF flush
           THEN /\ synced' = TRUE
                /\ syncedCount' = CountAfterFlush(cnt1, wok)
                /\ stored' = IF wok THEN sn1 ELSE stored
                /\ flushes' = IF wok THEN flushes + 1 ELSE flushes
                /\ nStoreFail' = IF wok THEN nStoreFail ELSE nStoreFail + 1
           ELSE /\ syncedCount' = cnt1
                /\ UNCHANGED << synced, stored, flushes, nStoreFail >>

\* rewriteSyncdBlockNumber(number), the store write returning wok.
rewriteSyncdBlockNumber(number, wok) ==
    /\ syncedNumber' = number
    /\ syncedCount' = 0
    /\ stored' = IF wok THEN number ELSE stored
    /\ nStoreFail' = IF wok THEN nStoreFail ELSE nStoreFail + 1
    /\ checkpointed' = checkpointed \cup {number}
    /\ UNCHANGED << synced, advances, flushes >>

\* ------------------------------------------------------------ range split

\* Mutant: the last job does not absorb the remainder.
RangeJobs_even(start, end, jobCount) ==
    LET step0 == U64(end - start) \div jobCount
        jobs == IF step0 = 0 THEN 1 ELSE jobCount
        step == IF step0 = 0 THEN U64(end - start) ELSE step0
    IN  [ job \in 1..jobs |->
            [ from |-> U64(start + (job - 1) * step),
              to |-> U64(start + job * step),
              h |-> U64(start + (job - 1) * step) ] ]

\* doScanRangeJob's sub-ranges: job i+1 scans [from, to).
RangeJobs(start, end, jobCount) ==
    LET count == U64(end - start)
        step0 == count \div jobCount
        jobs == IF step0 = 0 THEN 1 ELSE jobCount
        step == IF step0 = 0 THEN count ELSE step0
    IN  [ job \in 1..jobs |->
            [ from |-> U64(start + (job - 1) * step),
              to |-> IF job = jobs THEN end ELSE U64(start + job * step),
              h |-> U64(start + (job - 1) * step) ] ]

NoWorkers == << >>

\* ------------------------------------------------------------------- Init

NoSwap == [txid |-> "", pairID |-> "", chainID |-> "", logIndex |-> ""]

NothingDone ==
    [ring |-> FALSE, pending |-> FALSE, registered |-> FALSE, known |-> FALSE]

\* The dispatcher before its first call, ring and collections empty.
DispatcherIdle ==
    /\ dpc = "idle"
    /\ swap = NoSwap
    /\ attempt = 0
    /\ needCached = FALSE /\ needPending = FALSE
    /\ err = "nil"
    /\ cachedSwapPosts = << >>
    /\ collectionSwap = << >>
    /\ collectionSwapPending = << >>
    /\ collectionSwapDeleted = << >>
    /\ posts = << >>
    /\ did = NothingDone
    /\ accepted = {}
    /\ nCalls = 0

\* No pending-queue worker runs.
QueueOff ==
    /\ wpc = "off"
    /\ offset = 0
    /\ sp = << >>
    /\ spi = 0
    /\ repostOK = FALSE
    /\ doomed = {}
    /\ serverUp = FALSE

\* No transaction is at hand.
ClassifierOff ==
    /\ tx = [to |-> "nil"]
    /\ rules = << >>
    /\ scanReceipt = FALSE
    /\ cpc = "off"
    /\ receiptFound = FALSE
    /\ verified = << >>
    /\ emitted = << >>

\* doScanRangeJob is not looked at on its own.
SplitOff ==
    /\ rpc = "off"
    /\ rangeStart = 0 /\ rangeEnd = 0 /\ rangeJobs = 0
    /\ rangeScans = << >>

\* No history of scanLoop is kept.
TailOff ==
    /\ passScans = << >>
    /\ passUpdates = << >>
    /\ failedNow = {}
    /\ failedBefore = {}
    /\ passOffered = {}
    /\ rewound = FALSE

\* scanBlock is not modelled call by call: no timer is armed; the passes of
\* the pending-queue worker are not recorded.
BlockOff ==
    /\ passSnap = {}
    /\ passSeen = {}
    /\ bpc = "off"
    /\ bi = 0
    /\ processBlockTimers = [job \in 0..1 |-> [armed |-> FALSE, c |-> FALSE]]
    /\ cutOff = {}

\* The scan controller of a process that has just started.
ControllerBoot ==
    /\ HaveReloadConfig = FALSE
    /\ pc = "boot"
    /\ startHeightArgument = 0
    /\ syncedNumber = 0
    /\ syncedCount = 0
    /\ syncdCount2Mongodb = DefaultSyncdCount
    /\ synced = FALSE
    /\ wend = 0
    /\ workers = NoWorkers
    /\ from = 0 /\ latest = 0 /\ h = 0
    /\ cachedBlocks = EmptyCache
    /\ scannedOK = {}
    /\ checkpointed = {}
    /\ nRestarts = 0 /\ nFetchFail = 0 /\ nStoreFail = 0
    /\ preRestart = [synced |-> 0, stored |-> NoDoc]
    /\ advances = 0 /\ flushes = 0

Init ==
    /\ cfg \in Configs
    /\ chainHead \in HeadValues
    /\ stored \in IF cfg.Enable THEN StoredValues ELSE {NoDoc}
    /\ cfg.initsync => stored = NoDoc
    /\ mongodbEnable = TRUE
    /\ ControllerBoot
    /\ DispatcherIdle
    /\ QueueOff
    /\ ClassifierOff
    /\ SplitOff
    /\ TailOff
    /\ BlockOff

\* ---------------------------------------------------------------- start-up

\* mongodb.InitSyncedBlockNumber(chain, lb): seeds the document; an insert
\* over an existing document is a duplicate and changes nothing.
InitSyncedBlockNumber(doc, lb) == IF doc = NoDoc THEN lb ELSE doc

\* scanSwap, from reading the flags to the call of scanner.run().
scanSwap ==
    /\ UNCHANGED << dispVars, extVars >>
    /\ pc = "boot"
    /\ startHeightArgument' = cfg.start
    /\ syncdCount2Mongodb' = IF cfg.SyncNumber > 0 THEN cfg.SyncNumber
                             ELSE syncdCount2Mongodb
    /\ mongodbEnable' = cfg.Enable
    /\ IF cfg.Enable
       THEN LET doc == IF cfg.initsync
                       THEN InitSyncedBlockNumber(stored,
                                U64(loopGetLatestBlockNumber - StartBuffer))
                       ELSE stored
            IN  /\ stored' = doc
                /\ syncedCount' = 0
                /\ IF doc = NoDoc
                   THEN /\ pc' = "fatal"      \* getSyncdBlockNumber: log.Fatal
                        /\ UNCHANGED syncedNumber
                   ELSE /\ pc' = "run"
                        /\ syncedNumber' = U64(doc - StartBuffer)
       ELSE /\ syncedNumber' = U64(loopGetLatestBlockNumber - StartBuffer)
            /\ pc' = "run"
            /\ UNCHANGED << stored, syncedCount >>
    /\ UNCHANGED << cfg, chainHead, HaveReloadConfig, synced, wend, workers,
                    from, latest, h, cachedBlocks, scannedOK, checkpointed,
                    nRestarts, nFetchFail, nStoreFail, preRestart, advances,
                    flushes >>

\* run's start height: startHeightArgument after lines 255-265.
StartArgument(arg, endHeight, sn) ==
    LET a1 == IF endHeight = 0 /\ U64(arg) > sn THEN I64(sn) ELSE arg
    IN  IF a1 < 0 THEN I64(sn) ELSE a1

\* run's local start, for a non-zero startHeightArgument.
StartHeight(arg, end) ==
    IF arg > 0 THEN U64(arg) ELSE U64(end - U64(-arg))

\* run, up to the start of the range workers (or, with no range to scan, to
\* the entry of scanLoop or the final select).
run ==
    /\ UNCHANGED << dispVars, extVars >>
    /\ pc = "run"
    /\ LET end == IF cfg.endHeight = 0 THEN loopGetLatestBlockNumber
                  ELSE cfg.endHeight
           arg == StartArgument(startHeightArgument, cfg.endHeight, syncedNumber)
           start == StartHeight(arg, end)
       IN  /\ wend' = end
           /\ startHeightArgument' = arg
           /\ IF arg # 0
              THEN \* doScanRangeJob(start, wend)
                   IF cfg.jobCount = 0 \/ start >= end
                   THEN /\ pc' = "fatal"
                        /\ UNCHANGED << workers, from >>
                   ELSE /\ pc' = "range"
                        /\ workers' = RangeJobs(start, end, cfg.jobCount)
                        /\ UNCHANGED from
              ELSE /\ pc' = IF cfg.endHeight = 0 THEN "loopLatest" ELSE "blocked"
                   /\ from' = IF cfg.endHeight = 0 THEN end ELSE from
                   /\ UNCHANGED workers
    /\ UNCHANGED << cfg, chainHead, stored, HaveReloadConfig, mongodbEnable,
                    syncedNumber, syncedCount, syncdCount2Mongodb, synced,
                    latest, h, cachedBlocks, scannedOK, checkpointed,
                    nRestarts, nFetchFail, nStoreFail, preRestart, advances,
                    flushes >>

\* One iteration of a range worker's loop: scanBlock(job, h, false).
scanRange(job) ==
    /\ UNCHANGED << dispVars, extVars >>
    /\ pc = "range"
    /\ job \in DOMAIN workers
    /\ workers[job].h < workers[job].to
    /\ \E ok \in loopGetBlock(workers[job].h) :
          scanBlock(workers[job].h, FALSE, ok)
    /\ workers' = [workers EXCEPT ![job].h = U64(@ + 1)]
    /\ UNCHANGED << cfg, chainHead, stored, HaveReloadConfig, pc,
                    startHeightArgument, mongodbEnable, syncedNumber,
                    syncedCount, syncdCount2Mongodb, synced, wend, from,
                    latest, h, checkpointed, nRestarts, nStoreFail,
                    preRestart, advances, flushes >>

\* Mutant: wg.Wait() returns when one worker has finished.
WorkersDone_any ==
    \E job \in DOMAIN workers : workers[job].h >= workers[job].to

\* wg.Wait() can return: every worker has called wg.Done().
WorkersDone == \A job \in DOMAIN workers : workers[job].h >= workers[job].to

\* wg.Wait() returns; run goes on: the checkpoint rewrite, then scanLoop(wend)
\* or the final select.
rangeDone ==
    /\ UNCHANGED << dispVars, extVars >>
    /\ pc = "range"
    /\ WorkersDone
    /\ workers' = NoWorkers
    /\ IF cfg.endHeight = 0 /\ mongodbEnable
       THEN \E wok \in UpdateSyncedBlockNumber :
               rewriteSyncdBlockNumber(wend, wok)
       ELSE UNCHANGED << syncedNumber, syncedCount, stored, nStoreFail,
                         checkpointed, synced, advances, flushes >>
    /\ pc' = IF cfg.endHeight = 0 THEN "loopLatest" ELSE "blocked"
    /\ from' = IF cfg.endHeight = 0 THEN wend ELSE from
    /\ UNCHANGED << cfg, chainHead, HaveReloadConfig, startHeightArgument,
                    mongodbEnable, syncdCount2Mongodb, wend, latest, h,
                    cachedBlocks, scannedOK, nRestarts, nFetchFail,
                    preRestart >>

\* ---------------------------------------------------------------- scanLoop

\* The head of a pass: latest := loopGetLatestBlockNumber(); h := from.
loopLatest ==
    /\ UNCHANGED << dispVars, extVars >>
    /\ pc = "loopLatest"
    /\ latest' = loopGetLatestBlockNumber
    /\ h' = from
    /\ pc' = "loopScan"
    /\ UNCHANGED << cfg, chainHead, stored, HaveReloadConfig,
                    startHeightArgument, mongodbEnable, syncedNumber,
                    syncedCount, syncdCount2Mongodb, synced, wend, workers,
                    from, cachedBlocks, scannedOK, checkpointed, nRestarts,
                    nFetchFail, nStoreFail, preRestart, advances, flushes >>

\* One iteration of the pass: scanBlock(0, h, true), then the checkpoint.
loopScan ==
    /\ UNCHANGED << dispVars, extVars >>
    /\ pc = "loopScan"
    /\ h <= latest
    /\ \E ok \in loopGetBlock(h) : scanBlock(h, TRUE, ok)
    /\ IF mongodbEnable
       THEN \E wok \in UpdateSyncedBlockNumber : updateSyncdBlockNumber(h, wok)
       ELSE UNCHANGED << syncedNumber, syncedCount, stored, nStoreFail,
                         checkpointed, synced, advances, flushes >>
    /\ h' = U64(h + 1)
    /\ UNCHANGED << cfg, chainHead, HaveReloadConfig, pc, startHeightArgument,
                    mongodbEnable, syncdCount2Mongodb, wend, workers, from,
                    latest, nRestarts, preRestart >>

\* Mutant: the window is compressed to latest.
CompressFrom_latest(f, stable, l) == IF U64(f + stable) < l THEN l ELSE f

\* from after the window is compressed to the stability horizon.
CompressFrom(f, stable, l) == IF U64(f + stable) < l THEN U64(l - stable) ELSE f

\* The end of a pass: compress the window, rewind once after a reload.
loopEnd ==
    /\ UNCHANGED << dispVars, extVars >>
    /\ pc = "loopScan"
    /\ h > latest
    /\ LET f1 == CompressFrom(from, cfg.StableHeight, latest)
       IN  IF synced /\ HaveReloadConfig
           THEN /\ synced' = FALSE
                /\ from' = U64(f1 - cfg.ScanBackHeight)
                /\ HaveReloadConfig' = FALSE
           ELSE /\ from' = f1
                /\ UNCHANGED << synced, HaveReloadConfig >>
    /\ pc' = "loopLatest"
    /\ UNCHANGED << cfg, chainHead, stored, startHeightArgument,
                    mongodbEnable, syncedNumber, syncedCount,
                    syncdCount2Mongodb, wend, workers, latest, h,
                    cachedBlocks, scannedOK, checkpointed, nRestarts,
                    nFetchFail, nStoreFail, preRestart, advances, flushes >>

\* ------------------------------------------------------------- environment

\* A new block is mined. The process reads the head at start-up, in run and at
\* the head of a pass: a block mined in between is one mined just before the
\* next of these.
ChainGrow ==
    /\ UNCHANGED << dispVars, extVars >>
    /\ pc \in {"boot", "run", "loopLatest"}
    /\ chainHead < MaxHeight
    /\ chainHead' = chainHead + 1
    /\ UNCHANGED << cfg, stored, HaveReloadConfig, pc, startHeightArgument,
                    mongodbEnable, syncedNumber, syncedCount,
                    syncdCount2Mongodb, synced, wend, workers, from, latest,
                    h, cachedBlocks, scannedOK, checkpointed, nRestarts,
                    nFetchFail, nStoreFail, preRestart, advances, flushes >>

\* params.ReloadConfig succeeds: UpdateHaveReloadConfig(true). The latch is
\* read at the end of a pass only: a reload during the pass is one that
\* happens just before that read.
ReloadConfig ==
    /\ UNCHANGED << dispVars, extVars >>
    /\ pc = "loopScan"
    /\ h > latest
    /\ ~HaveReloadConfig
    /\ HaveReloadConfig' = TRUE
    /\ UNCHANGED << cfg, chainHead, stored, pc, startHeightArgument,
                    mongodbEnable, syncedNumber, syncedCount,
                    syncdCount2Mongodb, synced, wend, workers, from, latest,
                    h, cachedBlocks, scannedOK, checkpointed, nRestarts,
                    nFetchFail, nStoreFail, preRestart, advances, flushes >>

\* The process dies and is started again with the same command line: the
\* store and the chain stay, every variable of the process starts afresh.
Restart ==
    /\ UNCHANGED << dispVars, extVars >>
    /\ pc # "boot"
    /\ nRestarts < MaxRestarts
    /\ nRestarts' = nRestarts + 1
    /\ preRestart' = [synced |-> syncedNumber, stored |-> stored]
    /\ pc' = "boot"
    /\ HaveReloadConfig' = FALSE
    /\ startHeightArgument' = 0
    /\ mongodbEnable' = TRUE
    /\ syncedNumber' = 0
    /\ syncedCount' = 0
    /\ syncdCount2Mongodb' = DefaultSyncdCount
    /\ synced' = FALSE
    /\ wend' = 0
    /\ workers' = NoWorkers
    /\ from' = 0 /\ latest' = 0 /\ h' = 0
    /\ cachedBlocks' = EmptyCache
    /\ advances' = 0 /\ flushes' = 0
    /\ scannedOK' = {} /\ checkpointed' = {}
    /\ UNCHANGED << cfg, chainHead, stored, nFetchFail, nStoreFail >>

Next ==
    \/ scanSwap
    \/ run
    \/ \E job \in 1..2 : scanRange(job)
    \/ rangeDone
    \/ loopLatest
    \/ loopScan
    \/ loopEnd
    \/ ChainGrow
    \/ ReloadConfig
    \/ Restart

Spec == Init /\ [][Next]_vars

TypeOK ==
    /\ syncedNumber \in 0..(UintMod - 1)
    /\ from \in 0..(UintMod - 1)
    /\ stored \in {NoDoc} \cup 0..(UintMod - 1)

\* ============================================================== dispatcher

\* The records handed to postSwapPost: a bridge record, two router records of
\* one transaction, and a record of neither shape (a rule with an empty
\* PairID reaches postBridgeSwap).
SwapPosts ==
    { [txid |-> "t1", pairID |-> "p1", chainID |-> "", logIndex |-> ""],
      [txid |-> "t2", pairID |-> "", chainID |-> "c1", logIndex |-> "3"],
      [txid |-> "t2", pairID |-> "", chainID |-> "c1", logIndex |-> "7"],
      [txid |-> "t3", pairID |-> "", chainID |-> "", logIndex |-> ""] }

\* The shape rpcPost gives a record.
Shape(s) ==
    IF s.pairID # "" THEN "bridge"
    ELSE IF s.logIndex # "" THEN "router"
    ELSE "none"

\* client.RPCPostWithTimeoutAndID returning an error, named by the keyword its
\* message holds (E_txnotfound: errors.Is(err, tokens.ErrTxNotFound)).
RpcErrors ==
    { "E_timeout", "E_refused", "E_maxlimit", "E_rpcquery", "E_txnotfound",
      "E_depositlog", "E_mgodup", "E_already", "E_closed", "E_notsupport",
      "E_wrongcontract", "E_other" }

\* client.RPCPostWithTimeoutAndID returning a result, named by the status it
\* holds for the record's logindex: R_missing has none, R_missingAlready has
\* none while another entry says "already registered", R_nonstring has none
\* while another entry is not a string.
RpcResults ==
    { "R_success", "R_already", "R_wrongcontract", "R_closed", "R_notsupport",
      "R_other", "R_missing", "R_missingAlready", "R_nonstring" }

\* The answers one attempt can get: a bridge post reads no result, a record of
\* neither shape is never posted.
Answers(s) ==
    CASE Shape(s) = "bridge" -> RpcErrors \cup {"R_success"}
      [] Shape(s) = "router" -> RpcErrors \cup RpcResults
      [] OTHER -> {"none"}

\* Mutant: no error text is taken as an acknowledgement.
checkSwapPostError_never(e) == e

checkSwapPostError(e) ==
    IF e \in {"E_already", "E_closed", "E_notsupport"} THEN "nil" ELSE e

\* checkRouterStatus: the error is errors.New(status).
checkRouterStatus(status) ==
    IF status \in {"R_success", "R_already", "R_wrongcontract"} THEN "nil"
    ELSE CASE status = "R_closed" -> "S_closed"
           [] status = "R_notsupport" -> "S_notsupport"
           [] OTHER -> "S_other"

\* rpcPost(swap), the server answering resp: "nil" or the error returned.
\* R_nonstring does not return (see postAttempt).
rpcPost(s, resp) ==
    IF Shape(s) = "none" THEN "wrongitem"
    ELSE IF resp \in RpcErrors
    THEN IF checkSwapPostError(resp) = "nil" THEN "nil"
         ELSE IF Shape(s) = "router" THEN resp
         ELSE IF resp = "E_mgodup" THEN "nil"
         ELSE resp
    ELSE IF Shape(s) = "bridge" THEN "nil"
    ELSE IF resp = "R_missing" THEN "unmarshal"
    ELSE IF resp = "R_missingAlready" THEN "nil"
    ELSE checkRouterStatus(resp)

\* Mutant: every error is taken as transient.
IsTransientPost_all(e) == e # "nil"

\* postSwapPost's test of an attempt's error (lines 596-599).
IsTransientPost(e) ==
    e \in {"E_txnotfound", "E_timeout", "E_refused", "E_maxlimit"}

\* Mutant: the flag follows the last error only.
FlagAfter_last(flag, e) == IsTransientPost(e)

\* needCached / needPending after an attempt that failed with e.
FlagAfter(flag, e) == flag \/ IsTransientPost(e)

\* tools.Ring.Add: the oldest entry is overwritten when the ring is full.
RingAdd(ring, s) ==
    IF Len(ring) < RingCapacity THEN Append(ring, s)
    ELSE Append(Tail(ring), s)

\* mongodb.AddSwap / AddSwapPending / AddSwapDeleted: the document's key is
\* its txid, an insert under an existing key is a duplicate and is dropped.
AddSwap(collection, s) ==
    IF \E i \in 1..Len(collection) : collection[i].txid = s.txid
    THEN collection
    ELSE Append(collection, s)

\* Mutant: the record is registered whatever the flags are.
NeedRegister_always(cached, pending) == TRUE

\* postSwapPost's test before addMongodbSwapPost (line 614):
\* !needCached && !needPending.
NeedRegister(cached, pending) == ~cached /\ ~pending

\* postSwapPost is called with a record.
postSwapPost(s) ==
    /\ dpc = "idle"
    /\ nCalls < MaxCalls
    /\ nCalls' = nCalls + 1
    /\ swap' = s
    /\ attempt' = 0
    /\ needCached' = FALSE /\ needPending' = FALSE
    /\ err' = "nil"
    /\ posts' = << >>
    /\ did' = [NothingDone EXCEPT !.known = s \in accepted]
    /\ dpc' = "posting"
    /\ UNCHANGED << cachedSwapPosts, collectionSwap, collectionSwapPending,
                    collectionSwapDeleted, accepted >>
    /\ UNCHANGED << scanVars, extVars >>

\* One iteration of postSwapPost's loop: rpcPost, then the flags.
postAttempt ==
    /\ dpc = "posting"
    /\ attempt < rpcRetryCount
    /\ \E resp \in Answers(swap) :
         /\ posts' = Append(posts, resp)
         /\ IF resp = "R_nonstring"
            THEN \* value.(string) panics
                 /\ dpc' = "panic"
                 /\ UNCHANGED << attempt, needCached, needPending, err >>
            ELSE LET e == rpcPost(swap, resp)
                 IN  /\ err' = e
                     /\ IF e = "nil"
                        THEN /\ dpc' = "finish"
                             /\ UNCHANGED << attempt, needCached, needPending >>
                        ELSE /\ needCached' = FlagAfter(needCached, e)
                             /\ needPending' = FlagAfter(needPending, e)
                             /\ attempt' = attempt + 1
                             /\ dpc' = IF attempt + 1 < rpcRetryCount
                                       THEN "posting" ELSE "finish"
    /\ UNCHANGED << swap, cachedSwapPosts, collectionSwap,
                    collectionSwapPending, collectionSwapDeleted, did,
                    accepted, nCalls >>
    /\ UNCHANGED << scanVars, extVars >>

\* postSwapPost after its loop: the ring, the pending queue, the registered
\* collection.
postFinish ==
    /\ dpc = "finish"
    /\ cachedSwapPosts' = IF needCached THEN RingAdd(cachedSwapPosts, swap)
                          ELSE cachedSwapPosts
    /\ collectionSwapPending' =
          IF needPending /\ mongodbEnable
          THEN AddSwap(collectionSwapPending, swap)
          ELSE collectionSwapPending
    /\ collectionSwap' =
          IF NeedRegister(needCached, needPending) /\ mongodbEnable
          THEN AddSwap(collectionSwap, swap)
          ELSE collectionSwap
    /\ did' = [did EXCEPT !.ring = needCached,
                          !.pending = needPending /\ mongodbEnable,
                          !.registered =
                              NeedRegister(needCached, needPending)
                                /\ mongodbEnable]
    /\ accepted' = IF posts = << "R_success" >> THEN accepted \cup {swap}
                   ELSE accepted
    /\ dpc' = "idle"
    /\ UNCHANGED << swap, attempt, needCached, needPending, err,
                    collectionSwapDeleted, posts, nCalls >>
    /\ UNCHANGED << scanVars, extVars >>

\* The dispatcher of a running scanner, the store enabled or not.
InitDispatch ==
    /\ cfg \in {c \in Configs : c.start = 0 /\ c.endHeight = 0 /\ ~c.initsync}
    /\ mongodbEnable = cfg.Enable
    /\ chainHead = MaxHeight
    /\ stored = NoDoc
    /\ ControllerBoot
    /\ DispatcherIdle
    /\ QueueOff
    /\ ClassifierOff
    /\ SplitOff
    /\ TailOff
    /\ BlockOff

NextDispatch ==
    \/ \E s \in SwapPosts : postSwapPost(s)
    \/ postAttempt
    \/ postFinish

SpecDispatch == InitDispatch /\ [][NextDispatch]_vars

\* ======================================================= pending-queue worker

\* The answers of the swap server in the model of the queues: acceptance, a
\* duplicate, a timeout, an rpc query error and an error of no known kind.
QueueAnswers == {"R_success", "E_already", "E_timeout", "E_rpcquery", "E_other"}

\* The answers of the server: once it is up it accepts every post.
ServerAnswers ==
    IF serverUp THEN {"R_success", "E_already"} ELSE QueueAnswers

\* postSwapPost's loop from attempt i on (lines 591-604), over every answer
\* of the server: the flags at the end and the answer that ended the loop
\* ("none": no attempt succeeded).
RECURSIVE PostLoop(_, _, _, _)
PostLoop(s, i, cached, pending) ==
    IF i > rpcRetryCount
    THEN {[needCached |-> cached, needPending |-> pending, by |-> "none"]}
    ELSE UNION {LET e == rpcPost(s, resp)
                IN  IF e = "nil"
                    THEN {[needCached |-> cached, needPending |-> pending,
                           by |-> resp]}
                    ELSE PostLoop(s, i + 1, FlagAfter(cached, e),
                                  FlagAfter(pending, e))
                : resp \in ServerAnswers}

\* The ways a call of postSwapPost can end.
PostOutcomes(s) == PostLoop(s, 1, FALSE, FALSE)

\* Mutant: no attempt of repostSwap is taken as a success.
IsRepostOK_never(e) == FALSE

\* repostSwap's test of an attempt (line 767).
IsRepostOK(e) == e = "nil"

\* repostSwap's test of a failed attempt (lines 770-776): try again.
IsRepostRetry(e) == e \in {"E_rpcquery", "E_timeout", "E_refused", "E_maxlimit"}

\* repostSwap from attempt i on, over every answer of the server: its result
\* and the answer that ended it.
RECURSIVE RepostLoop(_, _)
RepostLoop(s, i) ==
    IF i > rpcRetryCount THEN {[ok |-> FALSE, by |-> "none"]}
    ELSE UNION {LET e == rpcPost(s, resp)
                IN  IF IsRepostOK(e) THEN {[ok |-> TRUE, by |-> resp]}
                    ELSE IF IsRepostRetry(e) THEN RepostLoop(s, i + 1)
                    ELSE {[ok |-> FALSE, by |-> "none"]}
                : resp \in ServerAnswers}

\* repostSwap(swap): the ways it can end.
repostSwap(s) == RepostLoop(s, 1)

\* The records the server has accepted, after a call that ended by the
\* answer by.
AcceptedAfter(s, by) ==
    IF by = "R_success" THEN accepted \cup {s} ELSE accepted

\* The records rpcPost sends to the server.
QueuePosts == {s \in SwapPosts : Shape(s) # "none"}

\* postSwapPost(s) from its call to its return.
dispatch(s) ==
    /\ dpc = "idle"
    /\ nCalls < MaxCalls
    /\ nCalls' = nCalls + 1
    /\ \E o \in PostOutcomes(s) :
         /\ cachedSwapPosts' = IF o.needCached THEN RingAdd(cachedSwapPosts, s)
                               ELSE cachedSwapPosts
         /\ collectionSwapPending' =
               IF o.needPending /\ mongodbEnable
               THEN AddSwap(collectionSwapPending, s)
               ELSE collectionSwapPending
         /\ collectionSwap' =
               IF NeedRegister(o.needCached, o.needPending) /\ mongodbEnable
               THEN AddSwap(collectionSwap, s)
               ELSE collectionSwap
         /\ accepted' = AcceptedAfter(s, o.by)
    /\ UNCHANGED << dpc, swap, attempt, needCached, needPending, err,
                    collectionSwapDeleted, posts, did >>
    /\ UNCHANGED << scanVars, queueVars, classVars, splitVars, tailVars,
                    blockVars, passVars >>

\* tools.Ring.Do(f): the entries for which f returned false, in their order.
RingDo(ring, keep) ==
    LET RECURSIVE Kept(_)
        Kept(i) == IF i > Len(ring) THEN << >>
                   ELSE IF keep[i] THEN << ring[i] >> \o Kept(i + 1)
                   ELSE Kept(i + 1)
    IN  Kept(1)

\* repostCachedSwaps' pass over the ring (lines 651-658): every entry is
\* reposted and evicted when repostSwap returns true.
repostCachedSwaps ==
    /\ cachedSwapPosts # << >>
    /\ \E r \in [1..Len(cachedSwapPosts) ->
                    UNION {repostSwap(s) : s \in QueuePosts}] :
         /\ \A i \in 1..Len(cachedSwapPosts) :
               r[i] \in repostSwap(cachedSwapPosts[i])
         /\ cachedSwapPosts' =
               RingDo(cachedSwapPosts,
                      [i \in 1..Len(cachedSwapPosts) |-> ~r[i].ok])
         /\ accepted' = accepted \cup
               {cachedSwapPosts[i] : i \in {j \in 1..Len(cachedSwapPosts) :
                                              r[j].by = "R_success"}}
    /\ UNCHANGED << dpc, swap, attempt, needCached, needPending, err,
                    collectionSwap, collectionSwapPending,
                    collectionSwapDeleted, posts, did, nCalls >>
    /\ UNCHANGED << scanVars, queueVars, classVars, splitVars, tailVars,
                    blockVars, passVars >>

\* mongodb.FindAllSwapPending(chain, offset, limit): the page of at most limit
\* documents after the first offset ones.
FindAllSwapPending(collection, off, limit) ==
    SubSeq(collection, off + 1,
           IF off + limit < Len(collection) THEN off + limit
           ELSE Len(collection))

\* mongodb.RemoveSwapPending(swap): the collection without the document of
\* the swap's txid.
RemoveSwapPending(collection, s) ==
    SelectSeq(collection, LAMBDA d : d.txid # s.txid)

\* mongodb.UpdateSwapPending(swap), called when the repost succeeded: the
\* entry is removed from pending.
UpdateSwapPending(collection, s) == RemoveSwapPending(collection, s)

\* loopGetTxReceipt(txid) as the worker sees it: a receipt of status 1, or an
\* error (the lookup failed five times, or the receipt's status is not 1).
loopGetTxReceipt(txid) ==
    IF txid \in doomed THEN {"error", "status0"} ELSE {"status1"}

\* Mutant: only a failed lookup moves the entry to deleted.
NeedDelete_error(rc) == rc = "error"

\* Mutant: every entry whose repost failed is moved to deleted.
NeedDelete_always(rc) == TRUE

\* loopSwapPending's test of the receipt (line 1014): err != nil or
\* r.Status != 1.
NeedDelete(rc) == rc # "status1"

\* loopSwapPending reads a page (lines 991-997): none, and it starts again
\* from offset 0.
loopSwapPendingPage ==
    /\ wpc = "find"
    /\ LET page == FindAllSwapPending(collectionSwapPending, offset, PageSize)
       IN  IF page = << >>
           THEN /\ offset' = 0
                /\ UNCHANGED << wpc, sp, spi >>
           ELSE /\ sp' = page
                /\ spi' = 1
                /\ wpc' = "entry"
                /\ UNCHANGED offset
    /\ UNCHANGED << repostOK, doomed, serverUp >>
    /\ UNCHANGED << scanVars, dispVars, classVars, splitVars, tailVars,
                    blockVars >>

\* The worker's step in the model of the queues: its passes are not recorded.
loopSwapPendingFind == loopSwapPendingPage /\ UNCHANGED passVars

\* loopSwapPending handles the entry at hand (lines 998-1020) and, after the
\* last of the page, moves its offset (lines 1021-1026).
loopSwapPendingRepost ==
    /\ wpc = "entry"
    /\ LET s == sp[spi]
       IN  \E r \in repostSwap(s) :
             /\ repostOK' = r.ok
             /\ accepted' = AcceptedAfter(s, r.by)
             /\ IF r.ok
                THEN /\ collectionSwapPending' =
                           UpdateSwapPending(collectionSwapPending, s)
                     /\ UNCHANGED collectionSwapDeleted
                ELSE \E rc \in loopGetTxReceipt(s.txid) :
                       IF NeedDelete(rc)
                       THEN /\ collectionSwapPending' =
                                  RemoveSwapPending(collectionSwapPending, s)
                            /\ collectionSwapDeleted' =
                                  AddSwap(collectionSwapDeleted, s)
                       ELSE UNCHANGED << collectionSwapPending,
                                         collectionSwapDeleted >>
    /\ IF spi < Len(sp)
       THEN /\ spi' = spi + 1
            /\ UNCHANGED << wpc, sp, offset >>
       ELSE /\ offset' = IF Len(sp) < PageSize THEN 0 ELSE offset + PageSize
            /\ wpc' = "find"
            /\ sp' = << >>
            /\ spi' = 0
    /\ UNCHANGED << doomed, serverUp >>
    /\ UNCHANGED << dpc, swap, attempt, needCached, needPending, err,
                    cachedSwapPosts, collectionSwap, posts, did, nCalls >>
    /\ UNCHANGED << scanVars, classVars, splitVars, tailVars,
                    blockVars >>

loopSwapPendingEntry == loopSwapPendingRepost /\ UNCHANGED passVars

\* The swap server comes up and stays up.
ServerUp ==
    /\ ~serverUp
    /\ serverUp' = TRUE
    /\ UNCHANGED << wpc, offset, sp, spi, repostOK, doomed >>
    /\ UNCHANGED << scanVars, dispVars, classVars, splitVars, tailVars,
                    blockVars, passVars >>

\* A running scanner with the store enabled: the dispatcher, the poller of
\* the ring and the worker of the pending queue.
InitQueue ==
    /\ cfg \in {c \in Configs : c.start = 0 /\ c.endHeight = 0 /\ ~c.initsync
                                  /\ c.Enable}
    /\ mongodbEnable = TRUE
    /\ chainHead = MaxHeight
    /\ stored = NoDoc
    /\ ControllerBoot
    /\ DispatcherIdle
    /\ wpc = "find"
    /\ offset = 0
    /\ sp = << >>
    /\ spi = 0
    /\ repostOK = FALSE
    /\ doomed \in SUBSET {s.txid : s \in QueuePosts}
    /\ serverUp = FALSE
    /\ ClassifierOff
    /\ SplitOff
    /\ TailOff
    /\ BlockOff

NextQueue ==
    \/ \E s \in QueuePosts : dispatch(s)
    \/ repostCachedSwaps
    \/ loopSwapPendingFind
    \/ loopSwapPendingEntry
    \/ ServerUp

SpecQueue == InitQueue /\ [][NextQueue]_vars

\* The worker is scheduled again and again.
SpecQueueFair ==
    /\ SpecQueue
    /\ WF_vars(loopSwapPendingFind)
    /\ WF_vars(loopSwapPendingEntry)

\* =================================================================== classifier

\* TokenConfig values: one rule of every swap type, the erc20 bridge with two
\* deposit addresses.
TokenRule(txType, token, deposit, pair, router, chainid) ==
    [TxType |-> txType, TokenAddress |-> token, DepositAddress |-> deposit,
     PairID |-> pair, RouterContract |-> router, ChainID |-> chainid,
     CallByContract |-> "", Whitelist |-> {}]

RuleTemplates ==
    { TokenRule("routerswap", "", "", "", "router", "c1"),
      TokenRule("gasswap", "", "", "", "router", "c1"),
      TokenRule("nftswap", "", "", "", "router", "c1"),
      TokenRule("anycallswap", "", "", "", "router", "c1"),
      TokenRule("swapin", "native", "dep1", "p1", "", ""),
      TokenRule("swapin", "token", "dep1", "p2", "", ""),
      TokenRule("swapin", "token", "dep2", "p3", "", ""),
      TokenRule("swapout", "token", "", "p4", "", "") }

IsNativeToken(c) == c.TokenAddress = "native"

IsRouterERC20Swap(c) == c.TxType = "routerswap" \/ c.TxType = "gasswap"

IsRouterSwap(c) == c.TxType \in {"routerswap", "gasswap"}

IsRouterNFTSwap(c) == c.TxType = "nftswap"

IsRouterAnycallSwap(c) == c.TxType = "anycallswap"

\* ScanConfig.CheckConfig's test of two rules: a rule of no router type and
\* without CallByContract has its own pairID key and, not native, its own
\* tokens key.
CheckConfig(a, b) ==
    LET keyed(c) == ~(IsRouterSwap(c) \/ IsRouterNFTSwap(c)
                        \/ IsRouterAnycallSwap(c))
                    /\ c.CallByContract = ""
    IN  (keyed(a) /\ keyed(b)) =>
            /\ << a.TokenAddress, a.PairID, a.TxType >> #
                    << b.TokenAddress, b.PairID, b.TxType >>
            /\ (~IsNativeToken(a) /\ ~IsNativeToken(b)) =>
                    << a.TokenAddress, a.DepositAddress >> #
                        << b.TokenAddress, b.DepositAddress >>

\* The tables of two rules that CheckConfig accepts.
RuleTables ==
    {t \in RuleTemplates \X RuleTemplates : CheckConfig(t[1], t[2])}

\* Receipt logs: the address, the removed flag and the topics (the first one
\* names the event; a Transfer's third one is the receiver).
Log(address, removed, topics) ==
    [address |-> address, removed |-> removed, topics |-> topics]

LogKinds ==
    { Log("router", FALSE, << "LogAnySwapOut" >>),
      Log("router", TRUE, << "LogAnySwapOut" >>),
      Log("router", FALSE, << "LogNFT721SwapOut" >>),
      Log("router", FALSE, << "LogAnycallSwapOut" >>),
      Log("other", FALSE, << "LogAnySwapOut" >>),
      Log("token", FALSE, << "Transfer", "from", "dep1" >>),
      Log("token", FALSE, << "Transfer", "from", "dep2" >>),
      Log("token", FALSE, << "LogSwapout", "account", "bind" >>) }

LogLists == UNION {[1..n -> LogKinds] : n \in 0..MaxLogs}

\* The call data: the function and, of a transfer, the receiver.
Inputs ==
    { [func |-> "transfer", receiver |-> "dep1"],
      [func |-> "transfer", receiver |-> "dep2"],
      [func |-> "Swapout", receiver |-> ""],
      [func |-> "other", receiver |-> ""] }

\* The transactions of a block: a contract creation, a transfer of the native
\* coin to the deposit address, a call of the router, a call of the token.
Transactions ==
    {t \in [to : {"nil", "dep1", "router", "token"}, input : Inputs,
            logs : LogLists] :
        /\ t.to \in {"nil", "dep1"} => (t.input.func = "other" /\ t.logs = << >>)
        /\ t.to = "router" => t.input.func = "other"}

NoReceipt == [has |-> FALSE, logs |-> << >>]

\* checkTxToAddress(tx, tokenCfg), loopGetTxReceipt succeeding or not:
\* isAcceptToAddr, the receipt, and whether the receipt was asked for.
checkTxToAddress(t, c, found) ==
    LET cmpTxTo == IF IsRouterSwap(c) THEN c.RouterContract
                   ELSE IF IsNativeToken(c) THEN c.DepositAddress
                   ELSE IF c.CallByContract # "" THEN c.CallByContract
                   ELSE c.TokenAddress
        need1 == IF IsRouterSwap(c) THEN TRUE
                 ELSE IF IsNativeToken(c) THEN scanReceipt
                 ELSE IF c.CallByContract # "" THEN TRUE
                 ELSE scanReceipt
        white == t.to # cmpTxTo /\ ~IsNativeToken(c) /\ t.to \in c.Whitelist
        accept == t.to = cmpTxTo \/ white
        needReceipt == need1 \/ white
    IN  IF ~accept
        THEN [isAcceptToAddr |-> FALSE, receipt |-> NoReceipt, asked |-> FALSE]
        ELSE IF needReceipt
        THEN IF found
             THEN [isAcceptToAddr |-> TRUE,
                   receipt |-> [has |-> TRUE, logs |-> t.logs], asked |-> TRUE]
             ELSE [isAcceptToAddr |-> FALSE, receipt |-> NoReceipt,
                   asked |-> TRUE]
        ELSE [isAcceptToAddr |-> TRUE, receipt |-> NoReceipt, asked |-> FALSE]

\* The topic sets of verifyAndPostRouterSwapTx (one topic of each set is
\* modelled).
RouterERC20Topics == {"LogAnySwapOut"}
RouterNFTTopics == {"LogNFT721SwapOut"}
RouterAnycallTopics == {"LogAnycallSwapOut"}

\* verifyAndPostRouterSwapTx's test of a log's first topic: a rule of none of
\* the three kinds takes every topic.
RouterTopicOK(c, logTopic) ==
    IF IsRouterERC20Swap(c) THEN logTopic \in RouterERC20Topics
    ELSE IF IsRouterNFTSwap(c) THEN logTopic \in RouterNFTTopics
    ELSE IF IsRouterAnycallSwap(c) THEN logTopic \in RouterAnycallTopics
    ELSE TRUE

\* postRouterSwap's record for the log at index i (fmt.Sprintf("%d", i)).
RouterPost(k, c, i) ==
    [rule |-> k, rpcMethod |-> "swap.RegisterRouterSwap", pairID |-> "",
     chainID |-> c.ChainID, logIndex |-> i]

\* postBridgeSwap's record.
BridgePost(k, c) ==
    [rule |-> k,
     rpcMethod |-> IF c.DepositAddress # "" THEN "swap.Swapin"
                   ELSE "swap.Swapout",
     pairID |-> c.PairID, chainID |-> "", logIndex |-> -1]

\* A log for which verifyAndPostRouterSwapTx reaches rlog.Topics[0] (line
\* 840) while the log has no topic: the index is out of range.
BareRouterLog(rlog, c) ==
    ~rlog.removed /\ rlog.address = c.RouterContract /\ Len(rlog.topics) = 0

\* verifyAndPostRouterSwapTx panics on one of the receipt's logs.
RouterLogPanics(receipt, c) ==
    receipt.has /\ \E i \in 1..Len(receipt.logs) : BareRouterLog(receipt.logs[i], c)

\* verifyAndPostRouterSwapTx: the posts, in the order of the logs; the index
\* of a log is its place in receipt.Logs, counted from 0. Nothing is posted
\* from the log on at which it panics.
verifyAndPostRouterSwapTx(k, receipt, c) ==
    LET RECURSIVE Posts(_)
        Posts(i) ==
            IF i > Len(receipt.logs) THEN << >>
            ELSE LET rlog == receipt.logs[i]
                 IN  IF rlog.removed \/ rlog.address # c.RouterContract
                     THEN Posts(i + 1)
                     ELSE IF BareRouterLog(rlog, c) THEN << >>
                     ELSE IF ~RouterTopicOK(c, rlog.topics[1])
                     THEN Posts(i + 1)
                     ELSE << RouterPost(k, c, i - 1) >> \o Posts(i + 1)
    IN  IF ~receipt.has THEN << >> ELSE Posts(1)

\* getLogTopicByTxType: the topic and the number of topics.
getLogTopicByTxType(txType) ==
    CASE txType = "swapin" -> [topic |-> "Transfer", len |-> 3]
      [] txType = "swapout" -> [topic |-> "LogSwapout", len |-> 3]
      [] OTHER -> [topic |-> "", len |-> 0]

parseErc20SwapinTxInput(input, depositAddress) ==
    IF input.func # "transfer" THEN "ErrTxFuncHashMismatch"
    ELSE IF input.receiver # depositAddress THEN "ErrTxWithWrongReceiver"
    ELSE "nil"

\* The logs parseErc20SwapinTxLogs and parseSwapoutTxLogs look at.
LogOfRule(rlog, c) ==
    /\ ~rlog.removed
    /\ rlog.address = c.TokenAddress
    /\ Len(rlog.topics) = getLogTopicByTxType(c.TxType).len
    /\ rlog.topics[1] = getLogTopicByTxType(c.TxType).topic

parseErc20SwapinTxLogs(logs, c) ==
    LET transfers == {i \in 1..Len(logs) : LogOfRule(logs[i], c)}
    IN  IF \E i \in transfers : logs[i].topics[3] = c.DepositAddress
        THEN "nil"
        ELSE IF transfers # {} THEN "ErrTxWithWrongReceiver"
        ELSE "ErrDepositLogNotFound"

verifyErc20SwapinTx(t, receipt, c) ==
    IF ~receipt.has THEN parseErc20SwapinTxInput(t.input, c.DepositAddress)
    ELSE parseErc20SwapinTxLogs(receipt.logs, c)

parseSwapoutTxInput(input, txType) ==
    IF txType = "swapout" /\ input.func = "Swapout" THEN "nil"
    ELSE "ErrTxFuncHashMismatch"

parseSwapoutTxLogs(logs, c) ==
    IF \E i \in 1..Len(logs) : LogOfRule(logs[i], c) THEN "nil"
    ELSE "ErrSwapoutLogNotFound"

verifySwapoutTx(t, receipt, c) ==
    IF ~receipt.has THEN parseSwapoutTxInput(t.input, c.TxType)
    ELSE parseSwapoutTxLogs(receipt.logs, c)

\* Mutant: no verification error is taken as a wrong receiver.
IsWrongReceiver_never(e) == FALSE

\* verifyTransaction's test of the swapin verification (line 532).
IsWrongReceiver(e) == e = "ErrTxWithWrongReceiver"

\* verifyTransaction(tx, tokenCfg) for the rule at index k: the error
\* returned, the verification's error, the posts, whether the receipt was
\* asked for, and whether the call panicked instead of returning.
verifyTransaction(t, k, c, found) ==
    LET chk == checkTxToAddress(t, c, found)
        Result(ret, inner, ps) ==
            [ret |-> ret, verifyErr |-> inner, posts |-> ps,
             asked |-> chk.asked,
             panics |-> chk.isAcceptToAddr /\ IsRouterSwap(c)
                          /\ RouterLogPanics(chk.receipt, c)]
    IN  IF ~chk.isAcceptToAddr THEN Result("nil", "none", << >>)
        ELSE IF IsRouterSwap(c)
        THEN Result("nil", "none",
                    verifyAndPostRouterSwapTx(k, chk.receipt, c))
        ELSE IF c.DepositAddress # "" /\ IsNativeToken(c)
        THEN Result("nil", "none", << BridgePost(k, c) >>)
        ELSE LET e == IF c.DepositAddress # ""
                      THEN verifyErc20SwapinTx(t, chk.receipt, c)
                      ELSE IF scanReceipt
                      THEN parseSwapoutTxLogs(chk.receipt.logs, c)
                      ELSE verifySwapoutTx(t, chk.receipt, c)
             IN  IF c.DepositAddress # "" /\ IsWrongReceiver(e)
                 THEN Result("nil", e, << >>)
                 ELSE IF e = "nil" THEN Result("nil", e, << BridgePost(k, c) >>)
                 ELSE Result(e, e, << >>)

\* The posts of the rules from index k on, in their order.
RECURSIVE PostsFrom(_, _)
PostsFrom(res, k) ==
    IF k > Len(res) THEN << >> ELSE res[k].posts \o PostsFrom(res, k + 1)

\* scanTransaction(tx): a transaction without a to-address is not looked at.
scanTransactionNil ==
    /\ cpc = "ready"
    /\ tx.to = "nil"
    /\ cpc' = "done"
    /\ UNCHANGED << tx, rules, scanReceipt, receiptFound, verified, emitted >>
    /\ UNCHANGED << scanVars, dispVars, queueVars, splitVars, tailVars,
                    blockVars, passVars >>

\* The rules verifyTransaction was called for: every rule, or the rules up
\* to the first one whose call panicked.
RulesReached(res) ==
    LET bad == {k \in 1..Len(res) : res[k].panics}
    IN  IF bad = {} THEN res
        ELSE SubSeq(res, 1, CHOOSE k \in bad : \A j \in bad : k <= j)

\* scanTransaction(tx): verifyTransaction for every rule of the table, in
\* the table's order; the posts are handed to postSwapPost. No deferred
\* recover is in the scanner: a panic of verifyTransaction ends the process.
scanTransaction ==
    /\ cpc = "ready"
    /\ tx.to # "nil"
    /\ \E found \in BOOLEAN :
         LET res == [k \in 1..Len(rules) |->
                        verifyTransaction(tx, k, rules[k], found)]
             reached == RulesReached(res)
         IN  /\ receiptFound' = found
             /\ verified' = reached
             /\ emitted' = PostsFrom(reached, 1)
             /\ cpc' = IF Len(reached) > 0 /\ reached[Len(reached)].panics
                       THEN "panic" ELSE "done"
    /\ UNCHANGED << tx, rules, scanReceipt >>
    /\ UNCHANGED << scanVars, dispVars, queueVars, splitVars, tailVars,
                    blockVars, passVars >>

\* A running scanner that is handed a transaction of a block.
InitClassify ==
    /\ cfg \in {c \in Configs : c.start = 0 /\ c.endHeight = 0 /\ ~c.initsync
                                  /\ c.Enable}
    /\ mongodbEnable = TRUE
    /\ chainHead = MaxHeight
    /\ stored = NoDoc
    /\ ControllerBoot
    /\ DispatcherIdle
    /\ QueueOff
    /\ tx \in Transactions
    /\ rules \in RuleTables
    /\ scanReceipt \in BOOLEAN
    /\ cpc = "ready"
    /\ receiptFound = FALSE
    /\ verified = << >>
    /\ emitted = << >>
    /\ SplitOff
    /\ TailOff
    /\ BlockOff

NextClassify ==
    \/ scanTransactionNil
    \/ scanTransaction

SpecClassify == InitClassify /\ [][NextClassify]_vars

\* ================================================================= range split

\* doScanRangeJob(start, end) up to wg.Wait(): the fatal exits, or one worker
\* started for every sub-range.
doScanRangeJob ==
    /\ rpc = "call"
    /\ IF rangeJobs = 0 \/ rangeStart >= rangeEnd
       THEN /\ rpc' = "fatal"
            /\ UNCHANGED workers
       ELSE /\ rpc' = "scan"
            /\ workers' = RangeJobs(rangeStart, rangeEnd, rangeJobs)
    /\ UNCHANGED << rangeStart, rangeEnd, rangeJobs, rangeScans >>
    /\ UNCHANGED << cfg, chainHead, stored, HaveReloadConfig, pc,
                    startHeightArgument, mongodbEnable, syncedNumber,
                    syncedCount, syncdCount2Mongodb, synced, wend, from,
                    latest, h, cachedBlocks, scannedOK, checkpointed,
                    nRestarts, nFetchFail, nStoreFail, preRestart, advances,
                    flushes >>
    /\ UNCHANGED << dispVars, queueVars, classVars, tailVars,
                    blockVars, passVars >>

\* One iteration of scanRange(job, from, to, wg): scanBlock(job, h, false).
scanRangeBlock(job) ==
    /\ rpc = "scan"
    /\ job \in DOMAIN workers
    /\ workers[job].h < workers[job].to
    /\ \E ok \in loopGetBlock(workers[job].h) :
          scanBlock(workers[job].h, FALSE, ok)
    /\ rangeScans' = [rangeScans EXCEPT ![workers[job].h] = Append(@, job)]
    /\ workers' = [workers EXCEPT ![job].h = U64(@ + 1)]
    /\ UNCHANGED << rpc, rangeStart, rangeEnd, rangeJobs >>
    /\ UNCHANGED << cfg, chainHead, stored, HaveReloadConfig, pc,
                    startHeightArgument, mongodbEnable, syncedNumber,
                    syncedCount, syncdCount2Mongodb, synced, wend, from,
                    latest, h, checkpointed, nRestarts, nStoreFail,
                    preRestart, advances, flushes >>
    /\ UNCHANGED << dispVars, queueVars, classVars, tailVars,
                    blockVars, passVars >>

\* wg.Wait() returns: every worker has called wg.Done().
rangeJoin ==
    /\ rpc = "scan"
    /\ WorkersDone
    /\ rpc' = "joined"
    /\ UNCHANGED << rangeStart, rangeEnd, rangeJobs, rangeScans >>
    /\ UNCHANGED scanVars
    /\ UNCHANGED << dispVars, queueVars, classVars, tailVars,
                    blockVars, passVars >>

\* doScanRangeJob is called with a start, an end and a number of jobs.
InitRange ==
    /\ cfg \in {c \in Configs : c.start = 0 /\ c.endHeight = 0 /\ ~c.initsync
                                  /\ c.Enable}
    /\ mongodbEnable = TRUE
    /\ chainHead = MaxHeight
    /\ stored = NoDoc
    /\ ControllerBoot
    /\ DispatcherIdle
    /\ QueueOff
    /\ ClassifierOff
    /\ TailOff
    /\ BlockOff
    /\ rpc = "call"
    /\ rangeStart \in 0..MaxRangeEnd
    /\ rangeEnd \in 0..MaxRangeEnd
    /\ rangeJobs \in 0..MaxJobs
    /\ rangeScans = [height \in 0..MaxRangeEnd |-> << >>]

NextRange ==
    \/ doScanRangeJob
    \/ \E job \in 1..MaxJobs : scanRangeBlock(job)
    \/ rangeJoin

SpecRange == InitRange /\ [][NextRange]_vars

\* ========================================================== scanLoop, by call

\* Mutant: the pass steps over every other height.
NextHeight_skip(height) == U64(height + 2)

\* h++ (line 331).
NextHeight(height) == U64(height + 1)

\* The failed heights of a pass that are in the stability window of its latest.
InStableWindow(failed, l, stable) == {g \in failed : g + stable >= l}

\* The head of a pass: latest := loopGetLatestBlockNumber(); h := from.
scanLoopLatest ==
    /\ pc = "loopLatest"
    /\ latest' = loopGetLatestBlockNumber
    /\ h' = from
    /\ pc' = "loopScan"
    /\ passScans' = << >>
    /\ passUpdates' = << >>
    /\ passOffered' = {}
    /\ UNCHANGED << failedNow, failedBefore, rewound >>
    /\ UNCHANGED << cfg, chainHead, stored, HaveReloadConfig,
                    startHeightArgument, mongodbEnable, syncedNumber,
                    syncedCount, syncdCount2Mongodb, synced, wend, workers,
                    from, cachedBlocks, scannedOK, checkpointed, nRestarts,
                    nFetchFail, nStoreFail, preRestart, advances, flushes >>
    /\ UNCHANGED << dispVars, queueVars, classVars, splitVars,
                    blockVars, passVars >>

\* scanBlock(0, h, true) of the pass.
scanLoopBlock ==
    /\ pc = "loopScan"
    /\ h <= latest
    /\ \E ok \in loopGetBlock(h) :
          /\ scanBlock(h, TRUE, ok)
          /\ failedNow' = IF ok THEN failedNow ELSE failedNow \cup {h}
          /\ passOffered' = IF ok /\ ~isScanned(cachedBlocks, BlockHash(h))
                            THEN passOffered \cup {h} ELSE passOffered
    /\ passScans' = Append(passScans, h)
    /\ IF mongodbEnable
       THEN /\ pc' = "loopUpdate"
            /\ UNCHANGED h
       ELSE /\ pc' = "loopScan"
            /\ h' = NextHeight(h)
    /\ UNCHANGED << passUpdates, failedBefore, rewound >>
    /\ UNCHANGED << cfg, chainHead, stored, HaveReloadConfig,
                    startHeightArgument, mongodbEnable, syncedNumber,
                    syncedCount, syncdCount2Mongodb, synced, wend, workers,
                    from, latest, checkpointed, nRestarts, nStoreFail,
                    preRestart, advances, flushes >>
    /\ UNCHANGED << dispVars, queueVars, classVars, splitVars,
                    blockVars, passVars >>

\* updateSyncdBlockNumber(h) of the pass, then h++.
scanLoopUpdate ==
    /\ pc = "loopUpdate"
    /\ \E wok \in UpdateSyncedBlockNumber : updateSyncdBlockNumber(h, wok)
    /\ passUpdates' = Append(passUpdates, h)
    /\ h' = NextHeight(h)
    /\ pc' = "loopScan"
    /\ UNCHANGED << passScans, failedNow, failedBefore, passOffered, rewound >>
    /\ UNCHANGED << cfg, chainHead, HaveReloadConfig, startHeightArgument,
                    mongodbEnable, syncdCount2Mongodb, wend, workers, from,
                    latest, cachedBlocks, scannedOK, nRestarts, nFetchFail,
                    preRestart >>
    /\ UNCHANGED << dispVars, queueVars, classVars, splitVars,
                    blockVars, passVars >>

\* The end of a pass: compress the window, rewind once after a reload.
scanLoopEnd ==
    /\ pc = "loopScan"
    /\ h > latest
    /\ LET f1 == CompressFrom(from, cfg.StableHeight, latest)
       IN  IF synced /\ HaveReloadConfig
           THEN /\ synced' = FALSE
                /\ from' = U64(f1 - cfg.ScanBackHeight)
                /\ HaveReloadConfig' = FALSE
           ELSE /\ from' = f1
                /\ UNCHANGED << synced, HaveReloadConfig >>
    /\ pc' = "loopLatest"
    /\ failedBefore' = InStableWindow(failedNow, latest, cfg.StableHeight)
    /\ failedNow' = {}
    /\ rewound' = (synced /\ HaveReloadConfig)
    /\ UNCHANGED << passScans, passUpdates, passOffered >>
    /\ UNCHANGED << cfg, chainHead, stored, startHeightArgument,
                    mongodbEnable, syncedNumber, syncedCount,
                    syncdCount2Mongodb, wend, workers, latest, h,
                    cachedBlocks, scannedOK, checkpointed, nRestarts,
                    nFetchFail, nStoreFail, preRestart, advances, flushes >>
    /\ UNCHANGED << dispVars, queueVars, classVars, splitVars,
                    blockVars, passVars >>

\* A scanner started without --end: it follows the chain, after the range of
\* --start when there is one.
InitTail ==
    /\ Init
    /\ cfg.endHeight = 0

NextTail ==
    \/ scanSwap
    \/ run
    \/ scanRange(1)
    \/ rangeDone
    \/ scanLoopLatest
    \/ scanLoopBlock
    \/ scanLoopUpdate
    \/ scanLoopEnd
    \/ ChainGrow
    \/ ReloadConfig

SpecTail == InitTail /\ [][NextTail]_vars

\* ========================================================= scanBlock, by call

\* The transactions of a block.
TxsPerBlock == 2

\* time.NewTimer(processBlockTimeout) (line 252): armed, nothing in C.
NewTimer == [armed |-> TRUE, c |-> FALSE]

\* Timer.Reset (line 431) arms the timer. The channel is not drained by the
\* scanner: a value left in it by an earlier firing stays or is dropped,
\* as the Go runtime of the build does.
TimerReset(t) ==
    {[armed |-> TRUE, c |-> x] : x \in IF t.c THEN {TRUE, FALSE} ELSE {FALSE}}

\* Mutant: the select never takes the timer's case.
TimerFired_never(t) == FALSE

\* case <-scanner.processBlockTimers[job].C (line 435) is ready.
TimerFired(t) == t.c

\* scanBlock's caller and arguments: job 1 of a range scan (scanRange, line
\* 319) or the tail loop (scanLoop, line 332).
AtHand ==
    IF pc = "range"
    THEN [job |-> 1, height |-> workers[1].h, cache |-> FALSE]
    ELSE [job |-> 0, height |-> h, cache |-> TRUE]

\* scanBlock has returned: the caller's loop goes on (h++, after the
\* checkpoint in the tail loop).
scanBlockReturn ==
    IF pc = "range"
    THEN /\ workers' = [workers EXCEPT ![1].h = U64(@ + 1)]
         /\ UNCHANGED << h, syncedNumber, syncedCount, stored, nStoreFail,
                         checkpointed, synced, advances, flushes >>
    ELSE /\ h' = U64(h + 1)
         /\ UNCHANGED workers
         /\ IF mongodbEnable
            THEN \E wok \in UpdateSyncedBlockNumber :
                    updateSyncdBlockNumber(h, wok)
            ELSE UNCHANGED << syncedNumber, syncedCount, stored, nStoreFail,
                              checkpointed, synced, advances, flushes >>

\* scanBlock up to the transaction loop (lines 421-431): the block is
\* fetched; a failed fetch and a block of the ring return at once.
scanBlockFetch ==
    /\ bpc = "idle"
    /\ \/ pc = "range" /\ 1 \in DOMAIN workers /\ workers[1].h < workers[1].to
       \/ pc = "loopScan" /\ h <= latest
    /\ \E ok \in loopGetBlock(AtHand.height) :
         IF ~ok \/ (AtHand.cache
                      /\ isScanned(cachedBlocks, BlockHash(AtHand.height)))
         THEN /\ scanBlock(AtHand.height, AtHand.cache, ok)
              /\ scanBlockReturn
              /\ UNCHANGED << bpc, bi, processBlockTimers >>
         ELSE /\ \E t \in TimerReset(processBlockTimers[AtHand.job]) :
                    processBlockTimers' =
                        [processBlockTimers EXCEPT ![AtHand.job] = t]
              /\ bpc' = "txs"
              /\ bi' = 0
              /\ UNCHANGED << nFetchFail, cachedBlocks, scannedOK, workers, h,
                              syncedNumber, syncedCount, stored, nStoreFail,
                              checkpointed, synced, advances, flushes >>
    /\ UNCHANGED cutOff
    /\ UNCHANGED << cfg, chainHead, HaveReloadConfig, pc, startHeightArgument,
                    mongodbEnable, syncdCount2Mongodb, wend, from, latest,
                    nRestarts, preRestart >>
    /\ UNCHANGED << dispVars, queueVars, classVars, splitVars, tailVars, passVars >>

\* One iteration of the transaction loop (lines 433-443): the select takes
\* the timer's value and breaks, or scanTransaction is called.
scanBlockTx ==
    /\ bpc = "txs"
    /\ bi < TxsPerBlock
    /\ IF TimerFired(processBlockTimers[AtHand.job])
       THEN /\ processBlockTimers' =
                   [processBlockTimers EXCEPT ![AtHand.job].c = FALSE]
            /\ bpc' = "end"
            /\ UNCHANGED bi
       ELSE /\ bi' = bi + 1                      \* scanner.scanTransaction(tx)
            /\ bpc' = IF bi + 1 = TxsPerBlock THEN "end" ELSE "txs"
            /\ UNCHANGED processBlockTimers
    /\ cutOff' = IF AtHand.cache /\ processBlockTimers[AtHand.job].c
                 THEN cutOff \cup {AtHand.height} ELSE cutOff
    /\ UNCHANGED scanVars
    /\ UNCHANGED << dispVars, queueVars, classVars, splitVars, tailVars, passVars >>

\* The end of scanBlock (lines 444-446): the hash goes into the ring, and the
\* caller's loop goes on.
scanBlockEnd ==
    /\ bpc = "end"
    /\ scanBlock(AtHand.height, AtHand.cache, TRUE)
    /\ scanBlockReturn
    /\ bpc' = "idle"
    /\ bi' = 0
    /\ UNCHANGED << processBlockTimers, cutOff >>
    /\ UNCHANGED << cfg, chainHead, HaveReloadConfig, pc, startHeightArgument,
                    mongodbEnable, syncdCount2Mongodb, wend, from, latest,
                    nRestarts, preRestart >>
    /\ UNCHANGED << dispVars, queueVars, classVars, splitVars, tailVars, passVars >>

\* processBlockTimeout after it was armed a timer fires: a value is in C.
\* run creates the timers (lines 250-253): none fires before.
processBlockTimerFire ==
    /\ pc \in {"range", "loopLatest", "loopScan"}
    /\ \E job \in 0..1 :
          /\ processBlockTimers[job].armed
          /\ processBlockTimers' =
                [processBlockTimers EXCEPT ![job] = [armed |-> FALSE, c |-> TRUE]]
    /\ UNCHANGED << bpc, bi, cutOff >>
    /\ UNCHANGED scanVars
    /\ UNCHANGED << dispVars, queueVars, classVars, splitVars, tailVars, passVars >>

\* A scanner started without --end and without the store, its timers as run
\* creates them.
InitBlock ==
    /\ cfg \in {c \in Configs : c.endHeight = 0 /\ ~c.Enable}
    /\ chainHead \in HeadValues
    /\ stored = NoDoc
    /\ mongodbEnable = TRUE
    /\ ControllerBoot
    /\ DispatcherIdle
    /\ QueueOff
    /\ ClassifierOff
    /\ SplitOff
    /\ TailOff
    /\ bpc = "idle"
    /\ bi = 0
    /\ processBlockTimers = [job \in 0..1 |-> NewTimer]
    /\ passSnap = {}
    /\ passSeen = {}
    /\ cutOff = {}

NextBlock ==
    \/ scanSwap
    \/ run
    \/ scanBlockFetch
    \/ scanBlockTx
    \/ scanBlockEnd
    \/ processBlockTimerFire
    \/ rangeDone
    \/ loopLatest
    \/ loopEnd
    \/ ChainGrow
    \/ ReloadConfig

SpecBlock == InitBlock /\ [][NextBlock]_vars

\* ===================================================== scan controller claims

InTail == pc \in {"loopLatest", "loopScan"}

\* C1: every height reported as the checkpoint (by updateSyncdBlockNumber or
\* rewriteSyncdBlockNumber, in memory or written to the store) is the height
\* of a block that was fetched and scanned before.
C1_CheckpointImpliesScanned == checkpointed \subseteq scannedOK

\* C2: after a restart the checkpoint, in memory and in the store, is never
\* lower than the value it held before the restart.
C2_MonotoneAcrossRestart ==
    (nRestarts > 0 /\ pc \notin {"boot", "fatal"}) =>
        /\ syncedNumber >= preRestart.synced
        /\ stored >= preRestart.stored

\* C3: in tail mode syncedNumber changes only in the step that processes the
\* height syncedNumber + 1, and then to exactly that height; the step that
\* processes any other height leaves it unchanged.
C3_UpdateRule ==
    [][ (InTail /\ pc' \in {"loopLatest", "loopScan"}) =>
          /\ (syncedNumber' # syncedNumber =>
                 /\ loopScan
                 /\ h = syncedNumber + 1
                 /\ syncedNumber' = syncedNumber + 1)
          /\ (loopScan /\ h # syncedNumber + 1 =>
                 syncedNumber' = syncedNumber) ]_vars

\* C3's case: the tail loop has advanced the checkpoint and is about to
\* process the next height.
C3_Witness == pc = "loopScan" /\ advances >= 1 /\ h = syncedNumber + 1

C5_BoundedLoss ==
    (InTail /\ mongodbEnable) => syncedNumber - stored <= syncdCount2Mongodb

\* ========================================================= dispatcher claims

\* A call of postSwapPost has returned.
Returned == dpc = "idle" /\ nCalls > 0

\* Every attempt of the call failed.
AllFailed == Len(posts) = rpcRetryCount /\ err # "nil"

\* The number of documents a collection holds for a record.
Entries(collection, s) ==
    Cardinality({i \in 1..Len(collection) : collection[i].txid = s.txid})

\* The answers that fail an attempt with an error that postSwapPost and the
\* dispatcher's description both take as transient.
TransientAnswers == {"E_timeout", "E_refused", "E_maxlimit"}

\* The answers that fail an attempt of a record of the given shape with an
\* error that neither takes as transient.
PermanentAnswers(shape) ==
    CASE shape = "bridge" -> {"E_wrongcontract", "E_other"}
      [] shape = "router" -> {"E_wrongcontract", "E_other", "E_mgodup",
                              "R_closed", "R_notsupport", "R_other",
                              "R_missing"}
      [] OTHER -> {"none"}

\* The answers by which the server says it already knows the record.
DuplicateAnswers(shape) ==
    CASE shape = "bridge" -> {"E_mgodup", "E_already"}
      [] shape = "router" -> {"E_already", "R_already"}
      [] OTHER -> {}

\* C6: when one of the attempts of a call succeeds, the record is inserted
\* into the registered collection (the store enabled) and the call puts it
\* neither in the retry ring nor in the pending queue.
C6_SuccessRegisters ==
    (Returned /\ err = "nil") =>
        /\ (mongodbEnable => did.registered)
        /\ ~did.ring
        /\ ~did.pending

C9_DuplicateIsSuccess ==
    (Returned /\ Shape(swap) = "bridge") =>
        \A i \in 1..Len(posts) :
            posts[i] = "E_mgodup" =>
                /\ i = Len(posts)
                /\ (mongodbEnable => did.registered)
                /\ ~did.ring
                /\ ~did.pending

\* C10: when the server accepted a record in an earlier call and answers a
\* later call for the same record that it already knows it, each collection
\* holds at most one entry for the record and the later call does not end as
\* a permanent failure.
C10_Idempotence ==
    (/\ Returned /\ did.known /\ posts # << >>
     /\ \A i \in 1..Len(posts) : posts[i] \in DuplicateAnswers(Shape(swap))) =>
        /\ Entries(collectionSwap, swap) <= 1
        /\ Entries(collectionSwapPending, swap) <= 1
        /\ Entries(collectionSwapDeleted, swap) <= 1
        /\ err = "nil"
        /\ Len(posts) = 1

C10_Witness ==
    /\ Returned /\ did.known /\ mongodbEnable
    /\ nCalls = 2
    /\ Shape(swap) = "router"
    /\ posts = << "E_already" >>
    /\ Entries(collectionSwap, swap) = 1

\* ------------------------------------------- the worker over a stored queue

\* The documents the pending queue can hold at most when the worker starts.
MaxPending == 3

\* The records the store holds from earlier runs of the scanner.
StoredPosts ==
    { [txid |-> "t1", pairID |-> "p1", chainID |-> "", logIndex |-> ""],
      [txid |-> "t2", pairID |-> "", chainID |-> "c1", logIndex |-> "3"],
      [txid |-> "t4", pairID |-> "p1", chainID |-> "", logIndex |-> ""],
      [txid |-> "t5", pairID |-> "p1", chainID |-> "", logIndex |-> ""] }

\* The pending queues of a store: one document for a txid.
PendingQueues ==
    {q \in UNION {[1..n -> StoredPosts] : n \in 0..MaxPending} :
        \A i, j \in 1..Len(q) : q[i].txid = q[j].txid => i = j}

\* loopSwapPending reads a page; the page read at offset 0 starts a pass.
passFind ==
    /\ loopSwapPendingPage
    /\ IF offset = 0
       THEN /\ passSnap' = {collectionSwapPending[i].txid :
                               i \in 1..Len(collectionSwapPending)}
            /\ passSeen' = {}
       ELSE UNCHANGED passVars

\* loopSwapPending hands the entry at hand to repostSwap.
passEntry ==
    /\ loopSwapPendingRepost
    /\ passSeen' = passSeen \cup {sp[spi].txid}
    /\ UNCHANGED passSnap

\* A scanner that starts over a store whose pending queue holds documents.
InitPass ==
    /\ cfg \in {c \in Configs : c.start = 0 /\ c.endHeight = 0 /\ ~c.initsync
                                  /\ c.Enable}
    /\ mongodbEnable = TRUE
    /\ chainHead = MaxHeight
    /\ stored = NoDoc
    /\ ControllerBoot
    /\ dpc = "idle"
    /\ swap = NoSwap
    /\ attempt = 0
    /\ needCached = FALSE /\ needPending = FALSE
    /\ err = "nil"
    /\ cachedSwapPosts = << >>
    /\ collectionSwap = << >>
    /\ collectionSwapPending \in PendingQueues
    /\ collectionSwapDeleted = << >>
    /\ posts = << >>
    /\ did = NothingDone
    /\ accepted = {}
    /\ nCalls = 0
    /\ wpc = "find"
    /\ offset = 0
    /\ sp = << >>
    /\ spi = 0
    /\ repostOK = FALSE
    /\ doomed \in SUBSET {collectionSwapPending[i].txid :
                             i \in 1..Len(collectionSwapPending)}
    /\ serverUp = FALSE
    /\ ClassifierOff
    /\ SplitOff
    /\ TailOff
    /\ BlockOff

NextPass ==
    \/ passFind
    \/ passEntry
    \/ ServerUp

SpecPass == InitPass /\ [][NextPass]_vars

\* ====================================================== pending-queue claims

\* The pending queue has a document for the transaction.
InPending(txid) ==
    \E i \in 1..Len(collectionSwapPending) :
        collectionSwapPending[i].txid = txid

\* The deleted collection has a document for the transaction.
InDeleted(txid) ==
    \E i \in 1..Len(collectionSwapDeleted) :
        collectionSwapDeleted[i].txid = txid

\* The worker has drained the pending queue and waits for its next pass.
Converged == wpc = "find" /\ collectionSwapPending = << >>

\* C11: once the pending worker has converged, every swap the server
\* accepted, at the first dispatch, at a repost from the retry ring or at a
\* repost from the pending queue, has exactly one record in registered and
\* none in pending.
C11_AcceptedRegisteredOnce ==
    Converged =>
        \A s \in accepted :
            /\ Entries(collectionSwap, s) = 1
            /\ Entries(collectionSwapPending, s) = 0

\* The transactions of the records.
Txids == {s.txid : s \in QueuePosts}

\* C12: with the worker scheduled again and again, a record in pending whose
\* transaction keeps a receipt of status 1 is eventually removed from pending
\* once the server accepts its repost.
C12_LiveDrained ==
    \A t \in Txids :
        (InPending(t) /\ t \notin doomed /\ serverUp) ~> ~InPending(t)

\* The worker has removed the first entry of a page of two after a repost
\* that the server accepted, the transaction's receipt being of status 1.
C12_Witness ==
    /\ wpc = "entry" /\ spi = 2
    /\ repostOK /\ serverUp
    /\ sp[1].txid \notin doomed
    /\ ~InPending(sp[1].txid)

\* C13 as stated: with the worker scheduled again and again, a record in
\* pending whose receipt lookup fails or returns a status other than 1 is
\* eventually in deleted.
C13_DoomedDeleted ==
    \A t \in Txids : (InPending(t) /\ t \in doomed) ~> InDeleted(t)

\* The worker's step on the entry at hand.
WorkerEntryStep == wpc = "entry" /\ (spi' # spi \/ wpc' # wpc)

\* C13: with the worker scheduled again and again, a record in pending whose
\* receipt lookup fails or returns a status other than 1 eventually leaves
\* pending; the worker's step on it moves it to deleted when the repost
\* failed and only removes it from pending when the repost succeeded.
C13_DoomedLeaves ==
    /\ \A t \in Txids : (InPending(t) /\ t \in doomed) ~> ~InPending(t)
    /\ [][(WorkerEntryStep /\ sp[spi].txid \in doomed) =>
             /\ Entries(collectionSwapPending', sp[spi]) = 0
             /\ ~repostOK' => Entries(collectionSwapDeleted', sp[spi]) = 1
             /\ repostOK' => UNCHANGED collectionSwapDeleted]_vars

\* The worker has moved the first entry of a page of two to deleted, after a
\* repost that failed and a receipt lookup that failed.
C13_Witness ==
    /\ wpc = "entry" /\ spi = 2
    /\ ~repostOK
    /\ sp[1].txid \in doomed
    /\ InDeleted(sp[1].txid)
    /\ ~InPending(sp[1].txid)

\* =========================================================== classifier claims

\* scanTransaction has returned from a transaction it looked at.
Classified == cpc = "done" /\ tx.to # "nil"

\* The records handed to the dispatcher for the rule at index k, in order.
EmittedOf(k) == SelectSeq(emitted, LAMBDA p : p.rule = k)

\* The rule is a router rule of one of the four sub-kinds.
IsRouterRule(c) ==
    c.TxType \in {"routerswap", "gasswap", "nftswap", "anycallswap"}

\* The indexes of the receipt logs that are not removed, are logs of the
\* rule's routerContract and have a first topic of the rule's topic set.
RouterLogIndexes(c) ==
    {i - 1 : i \in {j \in 1..Len(tx.logs) :
                        /\ ~tx.logs[j].removed
                        /\ tx.logs[j].address = c.RouterContract
                        /\ RouterTopicOK(c, tx.logs[j].topics[1])}}

\* C14: for every router rule of every sub-kind and a transaction sent to its
\* routerContract (the receipt found), the records handed to the dispatcher
\* for the rule are as many as the receipt's logs that are not removed, are
\* logs of the routerContract and have a first topic of the sub-kind's topic
\* set, and each record carries the index of its log.
C14_RouterEmission ==
    (Classified /\ receiptFound) =>
        \A k \in 1..Len(rules) :
            (IsRouterRule(rules[k]) /\ tx.to = rules[k].RouterContract) =>
                /\ Len(EmittedOf(k)) = Cardinality(RouterLogIndexes(rules[k]))
                /\ {EmittedOf(k)[i].logIndex : i \in 1..Len(EmittedOf(k))}
                        = RouterLogIndexes(rules[k])

\* The rule is an ERC-20 bridge swapin rule.
IsErc20SwapinRule(c) ==
    c.TxType = "swapin" /\ c.DepositAddress # "" /\ ~IsNativeToken(c)

\* The receivers of the transaction's token transfers: of its Transfer logs
\* when receipts are scanned, of its call data otherwise.
Receivers(c) ==
    IF scanReceipt
    THEN {tx.logs[i].topics[3] :
            i \in {j \in 1..Len(tx.logs) :
                      /\ ~tx.logs[j].removed
                      /\ tx.logs[j].address = c.TokenAddress
                      /\ tx.logs[j].topics[1] = "Transfer"}}
    ELSE IF tx.input.func = "transfer" THEN {tx.input.receiver} ELSE {}

\* The verification of the rule at index k has yielded wrong-receiver.
WrongReceiverAt(k) ==
    /\ IsErc20SwapinRule(rules[k])
    /\ verified[k].verifyErr = "ErrTxWithWrongReceiver"

\* The rule at index j is an ERC-20 swapin rule of the transaction's token
\* whose depositAddress received a transfer.
DepositMatches(j) ==
    /\ IsErc20SwapinRule(rules[j])
    /\ tx.to = rules[j].TokenAddress
    /\ rules[j].DepositAddress \in Receivers(rules[j])

C16_NativeUnconditional ==
    Classified =>
        \A k \in 1..Len(rules) :
            (IsNativeToken(rules[k]) /\ tx.to = rules[k].DepositAddress) =>
                /\ EmittedOf(k) =
                      << [rule |-> k, rpcMethod |-> "swap.Swapin",
                          pairID |-> rules[k].PairID, chainID |-> "",
                          logIndex |-> -1] >>
                /\ ~verified[k].asked

\* ========================================================== range split claims

\* The heights of the sub-range of a job.
SubRange(job) == {g \in 0..MaxRangeEnd :
                    workers[job].from <= g /\ g < workers[job].to}

\* C17: for start < end and jobs >= 1, the sub-ranges handed to the range
\* workers are pairwise disjoint, contiguous, and their union is
\* [start, end); every sub-range but the last has the size
\* floor((end - start) / jobs), the last one has the rest; and when the
\* workers have finished, every height of [start, end) has been scanned by
\* exactly one worker exactly once and no other height has been scanned.
C17_RangeSplit ==
    rpc \in {"scan", "joined"} =>
        LET n == Len(workers)
            size == (rangeEnd - rangeStart) \div rangeJobs
        IN  /\ n >= 1
            /\ workers[1].from = rangeStart
            /\ workers[n].to = rangeEnd
            /\ \A i \in 1..n : workers[i].from <= workers[i].to
            /\ \A i \in 1..(n - 1) :
                  /\ workers[i].to = workers[i + 1].from
                  /\ workers[i].to - workers[i].from = size
            /\ workers[n].to - workers[n].from =
                  (rangeEnd - rangeStart) - (n - 1) * size
            /\ \A i, j \in 1..n : i # j => SubRange(i) \cap SubRange(j) = {}
            /\ UNION {SubRange(i) : i \in 1..n} =
                  {g \in 0..MaxRangeEnd : rangeStart <= g /\ g < rangeEnd}
            /\ rpc = "joined" =>
                  \A g \in 0..MaxRangeEnd :
                      IF rangeStart <= g /\ g < rangeEnd
                      THEN \E i \in 1..n : /\ g \in SubRange(i)
                                            /\ rangeScans[g] = << i >>
                      ELSE rangeScans[g] = << >>

\* Several workers have finished a range that does not divide evenly.
C17_Witness ==
    /\ rpc = "joined"
    /\ Len(workers) >= 2
    /\ (rangeEnd - rangeStart) % rangeJobs # 0

\* C18: the scan controller leaves the range scan, for the checkpoint rewrite
\* and the first pass of scanLoop or for its final select, only when every
\* range worker has finished its whole sub-range; no range worker exists
\* during a pass of scanLoop, and while the workers run the checkpoint
\* variables do not change.
C18_JoinBeforeMovingOn ==
    /\ [][(pc = "range" /\ pc' \notin {"range", "boot"}) =>
             \A job \in DOMAIN workers : workers[job].h = workers[job].to]_vars
    /\ [][(pc = "range" /\ pc' = "range") =>
             UNCHANGED << syncedNumber, syncedCount, synced, stored >>]_vars
    /\ [](InTail => workers = NoWorkers)

\* The range scan is over, the checkpoint is rewritten to its end and the
\* first pass of scanLoop is about to start.
C18_Witness ==
    /\ pc = "loopLatest"
    /\ startHeightArgument # 0
    /\ nRestarts = 0
    /\ from = wend
    /\ syncedNumber = wend
    /\ scannedOK # {}

\* ============================================================ scanLoop claims

\* scanLoop is in a pass.
InPass == pc \in {"loopScan", "loopUpdate"}

\* The pass has called scanBlock for its last height.
PassOver == pc = "loopScan" /\ h > latest

\* The n heights from the pass's from on, in ascending order.
Ascending(n) == [i \in 1..n |-> from + i - 1]

\* C19: within a pass with the bounds from and latest, scanBlock is called
\* for the heights from, from + 1, ..., in ascending order, each once, up to
\* latest when the pass is over; the checkpoint update for h comes after the
\* scan of h and before the scan of h + 1.
C19_PassOrder ==
    InPass =>
        /\ passScans = Ascending(IF pc = "loopUpdate" THEN h - from + 1
                                 ELSE h - from)
        /\ passUpdates = IF mongodbEnable THEN Ascending(h - from) ELSE << >>
        /\ h <= latest \/ h = from \/ h = latest + 1
        /\ PassOver =>
              {passScans[i] : i \in 1..Len(passScans)} =
                  {g \in 0..MaxHeight : from <= g /\ g <= latest}

\* A pass of several heights is over, the checkpoint updated for each.
C19_Witness ==
    /\ PassOver
    /\ Len(passScans) >= 3
    /\ passUpdates = passScans

\* C20: a height whose fetch failed in a pass, and that is not below the
\* pass's latest height less the stable height, is fetched again in the next
\* pass; and the pass in which a fetch fails goes on with the next height, up
\* to its latest.
C20_FailedFetchedAgain ==
    /\ PassOver =>
          /\ failedBefore \subseteq {passScans[i] : i \in 1..Len(passScans)}
          /\ \A f \in failedNow :
                \A g \in (f + 1)..latest :
                    \E i \in 1..Len(passScans) : passScans[i] = g
    /\ InPass =>
          \A f \in failedNow :
              \E i \in 1..Len(passScans) : passScans[i] = f /\ f <= h

\* A pass is over in which the height that failed in the pass before, in its
\* stability window, was fetched again.
C20_Witness ==
    /\ PassOver
    /\ failedBefore # {}
    /\ failedBefore \subseteq {passScans[i] : i \in 1..Len(passScans)}

\* ================================================================ reload claims

\* The step that ends a pass of scanLoop (lines 337-346).
PassEndStep == pc = "loopScan" /\ h > latest /\ pc' = "loopLatest"

\* C21: whenever the reload latch is set at the end of a pass, the tail
\* loop rewinds from by scanBackHeight, below the compressed window, and
\* clears the latch, with the store enabled or disabled and whether or not
\* the checkpoint was flushed since start-up.
C21_ReloadScanBack ==
    [][(PassEndStep /\ HaveReloadConfig) =>
          /\ from' = U64(CompressFrom(from, cfg.StableHeight, latest)
                           - cfg.ScanBackHeight)
          /\ ~HaveReloadConfig']_vars

\* C22: in the pass that follows a rewind made for a reload, the
\* transactions of every block from the rewound from up to latest are
\* classified again (under the rule table then in force), also for a block
\* that was scanned with the same hash before the reload; a block whose
\* fetch failed in that pass is left out.
C22_ReinspectAfterReload ==
    (pc = "loopScan" /\ h > latest /\ rewound) =>
        \A g \in from..latest : g \in passOffered \/ g \in failedNow

\* C23: the rules are tried in the table's order until one of them matches;
\* once a rule has matched and dispatched the transaction no later rule is
\* tried, so the records dispatched for one transaction are all on behalf
\* of one rule.
C23_FirstMatchEnds ==
    Classified =>
        \A i, j \in 1..Len(emitted) : emitted[i].rule = emitted[j].rule

\* =========================================================== scanBlock claims

\* C24: once the timer of a block scan has fired (a value is in its
\* channel), scanTransaction is called for no further transaction of the
\* block, neither in this scan nor in a later one; the transaction loop
\* ends, the caller goes on with the next height, and in the tail loop the
\* hash of the block is in the scanned-block ring from the end of its scan.
C24_TimerCutOff ==
    /\ [][bi' = bi + 1 =>
             /\ ~processBlockTimers[AtHand.job].c
             /\ AtHand.height \notin cutOff]_vars
    /\ [][(bpc = "txs" /\ processBlockTimers[AtHand.job].c /\ bpc' # bpc) =>
             bpc' = "end"]_vars
    /\ [][(bpc = "end" /\ bpc' = "idle") =>
             IF pc = "range" THEN workers'[1].h = U64(workers[1].h + 1)
             ELSE h' = U64(h + 1)]_vars
    /\ [](\A g \in cutOff :
             \/ bpc \in {"txs", "end"} /\ AtHand.height = g
             \/ isScanned(cachedBlocks, BlockHash(g)))

\* A later pass of the tail loop is about to call scanBlock for a block
\* whose scan was cut off.
C24_Witness ==
    /\ pc = "loopScan"
    /\ bpc = "idle"
    /\ h <= latest
    /\ h \in cutOff

\* ============================================================ dispatch claims

\* The statuses of a router record's logindex that the specification names
\* terminal: "swap is closed", "swap trade not support", "tx with wrong
\* contract".
TerminalStatuses == {"R_closed", "R_notsupport", "R_wrongcontract"}

\* C25: an answer of the server that holds a terminal status for the
\* record's logindex is taken as a success: it ends the attempts of the
\* call without an error, no later attempt follows it, and the call puts
\* the record neither into the retry ring nor into the pending queue.
C25_TerminalIsSuccess ==
    \A i \in 1..Len(posts) :
        posts[i] \in TerminalStatuses =>
            /\ i = Len(posts)
            /\ err = "nil"
            /\ dpc # "posting"
            /\ dpc = "idle" => ~did.ring /\ ~did.pending

\* C26: with the store disabled the writes of the retry ring, of the
\* pending, registered and deleted collections and of the checkpoint are
\* no-ops: the ring and the collections stay empty and no checkpoint is
\* written, while postSwapPost goes on posting the records it is handed.
C26_DisabledNoWrites ==
    ~mongodbEnable =>
        /\ cachedSwapPosts = << >>
        /\ collectionSwap = << >>
        /\ collectionSwapPending = << >>
        /\ collectionSwapDeleted = << >>
        /\ stored = NoDoc

\* ========================================================== rule table claims

\* C27: a table of rules accepted by ScanConfig.CheckConfig holds no two
\* router rules of the same chainID and routerContract and no two bridge
\* rules of the same tokenAddress, pairID and txType (every rule of the
\* model names the same swap server).
C27_RuleTableUnique ==
    \A i, j \in 1..Len(rules) :
        i # j =>
            /\ (IsRouterRule(rules[i]) /\ IsRouterRule(rules[j])) =>
                  << rules[i].ChainID, rules[i].RouterContract >> #
                      << rules[j].ChainID, rules[j].RouterContract >>
            /\ (~IsRouterRule(rules[i]) /\ ~IsRouterRule(rules[j])) =>
                  << rules[i].TokenAddress, rules[i].PairID, rules[i].TxType >> #
                      << rules[j].TokenAddress, rules[j].PairID, rules[j].TxType >>

\* ==================================================== pending worker claims

\* C28: a record leaves pending only in the worker's step on it, removed
\* after its repost succeeded or moved to deleted after its repost failed
\* and its receipt lookup failed or returned a status other than 1; the
\* step leaves a record whose repost failed and whose receipt has status 1
\* in pending, and writes no tombstone after a repost that succeeded.
C28_WorkerTransitions ==
    /\ [][\A t \in Txids :
            (InPending(t) /\ \A i \in 1..Len(collectionSwapPending') :
                                 collectionSwapPending'[i].txid # t) =>
                /\ WorkerEntryStep
                /\ sp[spi].txid = t
                /\ \/ repostOK' /\ UNCHANGED collectionSwapDeleted
                   \/ /\ ~repostOK'
                      /\ t \in doomed
                      /\ Entries(collectionSwapDeleted', sp[spi]) = 1]_vars
    /\ [][(WorkerEntryStep /\ ~repostOK' /\ sp[spi].txid \notin doomed) =>
             UNCHANGED << collectionSwapPending, collectionSwapDeleted >>]_vars
    /\ [][(WorkerEntryStep /\ repostOK') =>
             UNCHANGED collectionSwapDeleted]_vars

\* The worker has left a record whose repost failed and whose receipt has
\* status 1 in pending, and goes on with the next entry of the page.
C28_Witness ==
    /\ wpc = "entry" /\ spi = 2
    /\ ~repostOK
    /\ sp[1].txid \notin doomed
    /\ InPending(sp[1].txid)
    /\ ~InDeleted(sp[1].txid)

\* The worker sleeps between two passes: its offset is back at 0.
BetweenPasses == wpc = "find" /\ offset = 0

\* C29: when a pass of the worker ends (the first short or empty page),
\* every record that was in pending when the pass started has been handed
\* to repostSwap in that pass, also when records left pending between the
\* pages of the pass.
C29_PassComplete == BetweenPasses => passSnap \subseteq passSeen

\* The errors section 7 lists as transient: the HTTP client timeout,
\* connection refused, the maximum request limit, "rpc query error" and the
\* deferred deposit-log-not-found error.
ListedTransient ==
    {"E_timeout", "E_refused", "E_maxlimit", "E_rpcquery", "E_depositlog"}

\* C30: a call of postSwapPost whose attempts all fail with one and the same
\* error of the listed transient kinds ends with the record in the retry
\* ring and, the store enabled, in the pending queue; and the error of an
\* attempt is transient for the first dispatch exactly when repostSwap
\* would try again after it.
C30_TransientFirstDispatch ==
    /\ (Returned /\ AllFailed
          /\ \E e \in ListedTransient : \A i \in 1..Len(posts) : posts[i] = e) =>
            /\ did.ring
            /\ mongodbEnable => did.pending
    /\ err # "nil" => (IsTransientPost(err) <=> IsRepostRetry(err))

\* ========================================================= range entry claims

\* run has a range to scan: --start or --end is not zero.
RangeConfigured == cfg.start # 0 \/ cfg.endHeight # 0

\* C31: for every start-up configuration with a non-zero start or a
\* non-zero end, run hands the range to doScanRangeJob before it blocks or
\* enters the tail loop: it never goes from its entry straight to the final
\* select or to scanLoop; so it is with start = 0 and end # 0.
C31_RangeEntry ==
    [][(pc = "run" /\ RangeConfigured) =>
          pc' \notin {"blocked", "loopLatest"}]_vars

\* ============================================================ block timer claims

\* The select of the transaction loop takes the timer's case: the rest of
\* the block's transactions is skipped (lines 435-437).
TimerCutStep == bpc = "txs" /\ bi < TxsPerBlock /\ bpc' = "end" /\ bi' = bi

\* C32: the transactions of a block are skipped by the timer only when the
\* timer fired after the Reset that began the scan of this block; a value
\* the timer put in its channel before (while the slot was idle since its
\* creation, or during an earlier block) skips no transaction of this block.
C32_ExpiryPerBlock ==
    [][TimerCutStep => ~processBlockTimers[AtHand.job].armed]_vars

\* ====================================================== ReloadConfig, by call

\* The token tables a configuration file may hold when it is read again: no
\* rule at all, or two rules, accepted by CheckConfig or not.
ReloadTables == {<< >>} \cup (RuleTemplates \X RuleTemplates)

\* ScanConfig.CheckConfig of a whole table (lines 1197-1234): err == nil.
TableChecked(table) ==
    /\ Len(table) # 0
    /\ \A i, j \in 1..Len(table) : i < j => CheckConfig(table[i], table[j])

\* params.ReloadConfig returns without an error logged.
ReloadSucceeds(exists, decoded, table) ==
    exists /\ decoded /\ TableChecked(table)

\* params.ReloadConfig (lines 1162-1182) with the file existing or not, its
\* decoding succeeding or not, and the table it holds.
paramsReloadConfig(exists, decoded, table) ==
    /\ cpc \in {"ready", "done"}
    /\ IF ~exists \/ ~decoded
       THEN UNCHANGED << rules, HaveReloadConfig >>
       ELSE /\ rules' = table                  \* scanConfig.Tokens = config.Tokens
            /\ HaveReloadConfig' = IF TableChecked(table) THEN TRUE
                                   ELSE HaveReloadConfig
    /\ UNCHANGED << tx, scanReceipt, cpc, receiptFound, verified, emitted >>
    /\ UNCHANGED << cfg, chainHead, stored, pc, startHeightArgument,
                    mongodbEnable, syncedNumber, syncedCount,
                    syncdCount2Mongodb, synced, wend, workers, from, latest,
                    h, cachedBlocks, scannedOK, checkpointed, nRestarts,
                    nFetchFail, nStoreFail, preRestart, advances, flushes >>
    /\ UNCHANGED << dispVars, queueVars, splitVars, tailVars, blockVars,
                    passVars >>

\* The configuration file is read again, whatever it holds.
ReloadAny ==
    \E exists, decoded \in BOOLEAN : \E table \in ReloadTables :
        paramsReloadConfig(exists, decoded, table)

\* A running scanner that is handed a transaction without logs, under a
\* table that LoadConfig accepted.
InitReload ==
    /\ InitClassify
    /\ tx.logs = << >>

NextReload ==
    \/ ReloadAny
    \/ scanTransactionNil
    \/ scanTransaction

SpecReload == InitReload /\ [][NextReload]_vars

\* ============================================================ failed reload claims

\* C33: a reload that fails (the file is missing, does not decode, or its
\* table does not pass CheckConfig) leaves the table of rules as it was and
\* does not set the reload latch, and scanTransaction never goes through a
\* table that CheckConfig did not accept.
C33_FailedReloadKeepsTable ==
    /\ [][\A exists, decoded \in BOOLEAN : \A table \in ReloadTables :
            (paramsReloadConfig(exists, decoded, table)
               /\ ~ReloadSucceeds(exists, decoded, table))
            => (rules' = rules /\ HaveReloadConfig' = HaveReloadConfig)]_vars
    /\ [][(cpc = "ready" /\ cpc' = "done" /\ tx.to # "nil")
            => TableChecked(rules)]_vars

\* ============================================================ checkpoint claims

\* C34: in the tail loop with the store enabled, for every start-up
\* configuration, also with start = 0, syncedNumber equals the latest height
\* of the pass when the pass ends.
C34_CheckpointFollowsHead ==
    [][(PassEndStep /\ mongodbEnable) => syncedNumber = latest]_vars

\* ========================================================= durable queue claims

\* C35: a router record whose call ended with a transient failure, the store
\* enabled, has its own entry in pending, with its txid and its logIndex,
\* also when another record of the same transaction is in pending already.
C35_RouterIdentityInPending ==
    (dpc = "idle" /\ did.pending /\ IsTransientPost(err)
       /\ Shape(swap) = "router") =>
        \E i \in 1..Len(collectionSwapPending) :
            /\ collectionSwapPending[i].txid = swap.txid
            /\ collectionSwapPending[i].logIndex = swap.logIndex

\* C36: after every call of postSwapPost with the store enabled, the call
\* has inserted the record into exactly one of pending and registered (a
\* document of the record's txid is in that collection), and it has pushed
\* the record into the retry ring if and only if it inserted it into
\* pending.
C36_OutcomeExclusive ==
    (Returned /\ mongodbEnable) =>
        /\ did.pending # did.registered
        /\ did.pending => Entries(collectionSwapPending, swap) = 1
        /\ did.registered => Entries(collectionSwap, swap) = 1
        /\ did.ring <=> did.pending
        /\ did.ring => \E i \in 1..Len(cachedSwapPosts) : cachedSwapPosts[i] = swap

C36_Witness ==
    /\ Returned /\ mongodbEnable
    /\ nCalls = 2
    /\ did.ring /\ did.pending /\ ~did.registered
    /\ Entries(collectionSwap, swap) = 1
    /\ Entries(collectionSwapPending, swap) = 1

\* ========================================================= receipts of any logs

\* Receipt logs as a node returns them: a log may have no topic at all (an
\* anonymous event without indexed arguments, LOG0).
BareLogKinds ==
    LogKinds \cup { Log("router", FALSE, << >>),
                    Log("router", TRUE, << >>),
                    Log("other", FALSE, << >>) }

\* A contract creation and the calls of the router, with every receipt.
RouterCalls ==
    {t \in [to : {"nil", "router"}, input : Inputs,
            logs : UNION {[1..n -> BareLogKinds] : n \in 0..MaxLogs}] :
        /\ t.input.func = "other"
        /\ t.to = "nil" => t.logs = << >>}

\* A running scanner that is handed a call of the router, or a contract
\* creation.
InitLogs ==
    /\ cfg \in {c \in Configs : c.start = 0 /\ c.endHeight = 0 /\ ~c.initsync
                                  /\ c.Enable}
    /\ mongodbEnable = TRUE
    /\ chainHead = MaxHeight
    /\ stored = NoDoc
    /\ ControllerBoot
    /\ DispatcherIdle
    /\ QueueOff
    /\ tx \in RouterCalls
    /\ rules \in RuleTables
    /\ scanReceipt \in BOOLEAN
    /\ cpc = "ready"
    /\ receiptFound = FALSE
    /\ verified = << >>
    /\ emitted = << >>
    /\ SplitOff
    /\ TailOff
    /\ BlockOff

NextLogs ==
    \/ scanTransactionNil
    \/ scanTransaction

SpecLogs == InitLogs /\ [][NextLogs]_vars

\* ============================================================== router log claims

\* C37: for every receipt, also one with a log of the router contract that
\* is not removed and has no topic, the inspection of the logs does not
\* fault: scanTransaction returns, having called verifyTransaction for every
\* rule of the table.
C37_RouterLogsNeverFault ==
    /\ cpc # "panic"
    /\ (cpc = "done" /\ tx.to # "nil") => Len(verified) = Len(rules)

\* ================================================================ start-up claims

\* C38: at start-up with the store enabled the ten-block buffer is taken
\* off the stored checkpoint without a wrap of the unsigned subtraction, for
\* every stored value, also one below ten; run's start height is not
\* wrapped either; and the first height the process scans is at most the
\* stored checkpoint.
C38_NoWrapAtStartup ==
    /\ []((pc = "run" /\ mongodbEnable) =>
              syncedNumber = stored - StartBuffer)
    /\ []((pc = "range" /\ mongodbEnable) =>
              \A job \in DOMAIN workers : workers[job].from <= stored)
    /\ [][(mongodbEnable /\ scannedOK = {} /\ scannedOK' # {}) =>
              \A g \in scannedOK' : g <= stored]_vars

====
